---- MODULE Spec2Model ----
(***************************************************************************)
(* Portal event-processing core of bridgev2 (portal.go).                   *)
(*                                                                         *)
(* State: the Store (portal rows, message rows), the Bridge's registry     *)
(* (portalsByID, portalsByMXID, the Portal instances), each Portal's       *)
(* event channel, the position of each Portal's eventLoop goroutine and    *)
(* of a non-pump caller of CreateMatrixRoom, and roomCreateLock.           *)
(* cacheLock is modelled by atomicity: every critical section of cacheLock *)
(* is one action; the lock specification alone follows the goroutines      *)
(* from one lock operation, call or enqueue to the next.  Identifiers are  *)
(* small naturals (0 is the empty id), except portal, user, login and      *)
(* ghost ids, which are strings.                                           *)
(***************************************************************************)
EXTENDS Integers, Sequences, FiniteSets, TLC

\* ------------------------------------------------------------------ bounds
PortalEventBuffer == 64

MaxInst == 3

MaxRooms == 3

MaxEvents == 2

MaxMsgEvents == 2

MaxOverflow == 2

MaxParts == 2

MaxTyping == 2

MaxRelayEvents == 2

MaxIntentEvents == 2

MaxGateEvents == 2

MaxThreadEvents == 2

MaxTypers == 3

PortalIDs == {"pa", "pb"}

Users == {"u1", "u2", "u3"}

LoginIDs == {"l1", "l2", "l3"}

RemoteIDs == {1, 2}

Inst == 1..MaxInst

RoomIDs == 1..MaxRooms

Callers == {"loop", "ext"}

\* Bridge.Bot.GetMXID()
Bot == "@bot"

\* The remote users; each has a ghost
GhostIDs == {"g1", "g2"}

\* The M-side user ids: the bot, the ghosts and the users
MXIDs == {Bot, "@g1", "@g2"} \cup Users

\* ------------------------------------------------------------------- state
VARIABLES
    dbPortal,        \* Store: portal rows by PortalID (ID = "" : no row)
    portals,         \* the Portal instances, in order of allocation; Info
                     \* holds the name, topic and avatar fields of the row
    portalsByID,     \* Bridge.portalsByID : PortalID -> instance (0 = absent)
    portalsByMXID,   \* Bridge.portalsByMXID : RoomID -> instance (0 = absent)
    returned,        \* <<PortalID, instance>> pairs returned by lookups
    events,          \* Portal.events : the channel's buffer, per instance
    nextSeq,         \* number of queueEvent calls made so far
    accepted,        \* per instance: events accepted by queueEvent, in order
    dropped,         \* events dropped by queueEvent
    pc,              \* position of eventLoop, per instance
    ext,             \* position of the non-pump caller of CreateMatrixRoom
    cur,             \* the event eventLoop has received, per instance
    handled,         \* per instance: events dispatched to a handler, in order
    running,         \* FALSE once an unrecovered panic ended the process
    panics,          \* the events whose handling panicked
    roomCreateLock,  \* holder of Portal.roomCreateLock ("" = free)
    nextRoom,        \* next room id the M-API hands out
    createCalls,     \* per instance: successful M-API CreateRoom calls
    initialMembers,  \* per instance: initialMembers of the CreateMatrixRoom
                     \* call that holds roomCreateLock
    dbMessage,       \* Store: message rows
    nextRow,         \* Store: next RowID
    room,            \* the events the bridge has sent to the M-side
    nextMX,          \* next event id the M-API hands out
    logins,          \* User.logins : the cached login ids of each user
    clients,         \* the logins whose Client is not nil
    dbUserPortal,    \* Store: login ids of a user associated with a portal
    puppets,         \* the users for whom Matrix.UserIntent is not nil
    dbReaction,      \* Store: reaction rows
    currentlyTyping, \* Portal.currentlyTyping, per instance
    members,         \* M-side: the membership of each user in each room
    cacheLock,       \* holder of Bridge.cacheLock ("" = free)
    currentlyTypingLock, \* holder of Portal.currentlyTypingLock ("" = free)
    goroutine,       \* per goroutine: the lock operations, calls and
                     \* enqueues it still has to make in its routine
    reuploadFailed,  \* per instance: the avatar ID whose Reupload, the
                     \* latest of the portal, failed ("" : none)
    last             \* what the latest step of the program did

regv  == <<dbPortal, portals, portalsByID, portalsByMXID, returned>>

chanv == <<events, nextSeq, accepted, dropped>>

loopv == <<pc, ext, cur, handled, running, panics>>

roomv == <<roomCreateLock, nextRoom, createCalls, initialMembers>>

msgv  == <<dbMessage, nextRow, room, nextMX, dbReaction, currentlyTyping>>

userv == <<logins, clients, dbUserPortal, puppets>>

infov == <<members>>

lockv == <<cacheLock, currentlyTypingLock, goroutine>>

histv == <<reuploadFailed>>

vars == <<regv, chanv, loopv, roomv, msgv, userv, infov, lockv, histv, last>>

\* The goroutines of the lock specification: the pump of a portal, a
\* goroutine of the network connector and the portal's typing updater
Threads == {"loop", "ext", "typing"}

\* The name, topic and avatar fields of a portal row that has none
NoInfo == [Name |-> "", NameSet |-> FALSE, Topic |-> "", TopicSet |-> FALSE,
           AvatarID |-> "", AvatarMXC |-> "", AvatarHash |-> 0,
           AvatarSet |-> FALSE]

\* The same fields of a row whose room was created with them
SetInfo == [NoInfo EXCEPT !.NameSet = TRUE, !.TopicSet = TRUE,
                          !.AvatarSet = TRUE]

NilRow == [ID |-> "", MXID |-> 0, ParentID |-> "", Info |-> NoInfo]

NilMessage == [RowID |-> 0, ID |-> 0, PartID |-> 0, MXID |-> 0,
               RelatesToRowID |-> 0, sender_mxid |-> "", rev |-> 0]

NoEvent == [n |-> 0, kind |-> "", type |-> "", create |-> FALSE,
            sender |-> "", id |-> 0, ref |-> 0, refPart |-> 0, thread |-> 0,
            parts |-> 0,
            fromMe |-> FALSE, senderLogin |-> "", source |-> "",
            users |-> <<>>]

\* The record of one step: the operation, the Portal instance, the event,
\* the calls it made on the R-Client, the M-API and the Store, whether the
\* lookup that guards it found a row, and the calls whose failure it logged.
Step(op, i, evt) == [op |-> op, inst |-> i, evt |-> evt, err |-> FALSE,
                     found |-> FALSE, calls |-> {}, sends |-> 0, log |-> {},
                     api |-> <<>>, arg |-> <<>>, stopped |-> <<>>,
                     started |-> <<>>, pref |-> [login |-> "", err |-> ""],
                     login |-> "", orig |-> [User |-> "", member |-> ""],
                     intent |-> <<>>]

\* ---------------------------------------------------------------- registry
\* The registry part of the state, as loadPortal reads and writes it.
Registry == [db |-> dbPortal, portals |-> portals, byID |-> portalsByID,
             byMXID |-> portalsByMXID, loops |-> {}, res |-> 0, err |-> FALSE]

RECURSIVE loadPortal(_, _, _, _, _)
RECURSIVE unlockedGetPortalByID(_, _, _, _)

\* r: the registry; row, queryErr: the Store's answer; id: "" for nil;
\* env.qerr / env.ierr: the portal ids whose Store query / insert fails.
\* The result lists in loops the instances whose eventLoop was started.
loadPortal(r, row, queryErr, id, env) ==
    IF queryErr THEN [r EXCEPT !.res = 0, !.err = TRUE]
    ELSE IF row.ID = "" /\ id = "" THEN [r EXCEPT !.res = 0, !.err = FALSE]
    ELSE IF row.ID = "" /\ id \in env.ierr
    THEN [r EXCEPT !.res = 0, !.err = TRUE]
    ELSE
      LET db     == IF row.ID = ""
                    THEN [ID |-> id, MXID |-> 0, ParentID |-> "",
                          Info |-> NoInfo]
                    ELSE row
          i      == Len(r.portals) + 1
          portal == [ID |-> db.ID, MXID |-> db.MXID, ParentID |-> db.ParentID,
                     Parent |-> 0, Relay |-> "", Info |-> db.Info]
          r1     == [r EXCEPT !.db[db.ID] = db,
                              !.portals = Append(@, portal),
                              !.byID[db.ID] = i,
                              !.byMXID = IF db.MXID # 0
                                         THEN [@ EXCEPT ![db.MXID] = i] ELSE @]
      IN IF db.ParentID # ""
         THEN LET r2 == unlockedGetPortalByID(r1, db.ParentID, FALSE, env)
              IN IF r2.err THEN [r2 EXCEPT !.res = 0]
                 ELSE [r2 EXCEPT !.portals[i].Parent = r2.res,
                                 !.loops = @ \cup {i},
                                 !.res = i, !.err = FALSE]
         ELSE [r1 EXCEPT !.loops = @ \cup {i}, !.res = i, !.err = FALSE]

\* An id that is handed on whatever the caller asked for
idPtrAlways(id, onlyIfExists) == id

\* idPtr: the id, or nil ("") when onlyIfExists
idPtr(id, onlyIfExists) == IF onlyIfExists THEN "" ELSE id

\* unlockedGetPortalByID without the look into portalsByID
unlockedGetPortalByIDNoCache(r, id, onlyIfExists, env) ==
    loadPortal(r, IF id \in env.qerr THEN NilRow ELSE r.db[id],
               id \in env.qerr, idPtr(id, onlyIfExists), env)

unlockedGetPortalByID(r, id, onlyIfExists, env) ==
    IF r.byID[id] # 0 THEN [r EXCEPT !.res = r.byID[id], !.err = FALSE]
    ELSE loadPortal(r, IF id \in env.qerr THEN NilRow ELSE r.db[id],
                    id \in env.qerr, idPtr(id, onlyIfExists), env)

\* DB.Portal.GetByMXID
GetByMXID(db, mxid) ==
    IF \E id \in PortalIDs : db[id].ID # "" /\ db[id].MXID = mxid
    THEN db[CHOOSE id \in PortalIDs : db[id].ID # "" /\ db[id].MXID = mxid]
    ELSE NilRow

\* Writes a lookup's outcome back to the state; the goroutines that
\* loadPortal started wait on their channels.  key: what was asked for.
Adopt(op, key, r) ==
    /\ Len(r.portals) <= MaxInst
    /\ dbPortal' = r.db
    /\ portals' = r.portals
    /\ portalsByID' = r.byID
    /\ portalsByMXID' = r.byMXID
    /\ pc' = [i \in Inst |-> IF i \in r.loops THEN "recv" ELSE pc[i]]
    /\ returned' = IF r.res # 0
                   THEN returned \cup {<<r.portals[r.res].ID, r.res>>}
                   ELSE returned
    /\ last' = [Step(op, r.res, NoEvent) EXCEPT !.err = r.err, !.arg = key]
    /\ UNCHANGED <<chanv, ext, cur, handled, running, panics, roomv, msgv,
                   userv, lockv, histv, infov>>

\* GetPortalByMXID without the look into portalsByMXID
GetPortalByMXIDNoCache(mxid, env) ==
    /\ running
    /\ Adopt("GetPortalByMXID", mxid,
             loadPortal(Registry, IF env.merr THEN NilRow
                                  ELSE GetByMXID(dbPortal, mxid),
                        env.merr, "", env))

GetPortalByMXID(mxid, env) ==
    /\ running
    /\ LET r == Registry
       IN IF r.byMXID[mxid] # 0
          THEN Adopt("GetPortalByMXID", mxid, [r EXCEPT !.res = r.byMXID[mxid]])
          ELSE Adopt("GetPortalByMXID", mxid,
                     loadPortal(r, IF env.merr THEN NilRow
                                   ELSE GetByMXID(r.db, mxid),
                                env.merr, "", env))

GetPortalByID(id, env) ==
    /\ running
    /\ Adopt("GetPortalByID", id, unlockedGetPortalByID(Registry, id, FALSE, env))

GetExistingPortalByID(id, env) ==
    /\ running
    /\ Adopt("GetExistingPortalByID", id,
             unlockedGetPortalByID(Registry, id, TRUE, env))

\* ------------------------------------------------------------------- queue
\* A channel that never reports full
ChanFullNever(q) == FALSE

\* len(portal.events) == cap(portal.events)
ChanFull(q) == Len(q) >= PortalEventBuffer

\* A channel that hands out the newest event first
ChanSendFront(q, e) == <<e>> \o q

\* portal.events <- evt
ChanSend(q, e) == Append(q, e)

\* the value `range portal.events` yields next
ChanRecv(q) == Head(q)

\* The instances some caller holds a pointer to
Holders == {i \in Inst : \E p \in PortalIDs : <<p, i>> \in returned}

queueEvent(i, evt) ==
    /\ running
    /\ i \in Holders
    /\ nextSeq' = nextSeq + 1
    /\ IF ~ChanFull(events[i])
       THEN /\ events' = [events EXCEPT ![i] = ChanSend(@, evt)]
            /\ accepted' = [accepted EXCEPT ![i] = Append(@, evt.n)]
            /\ dropped' = dropped
            /\ last' = Step("queueEvent", i, evt)
       ELSE /\ dropped' = dropped \cup {evt.n}
            /\ last' = [Step("queueEvent", i, evt) EXCEPT !.err = TRUE]
            /\ UNCHANGED <<events, accepted>>
    /\ UNCHANGED <<regv, loopv, roomv, msgv, userv, lockv, histv, infov>>

\* One iteration of `for rawEvt := range portal.events`: the receive.
eventLoop(i) ==
    /\ running
    /\ pc[i] = "recv"
    /\ events[i] # <<>>
    /\ cur' = [cur EXCEPT ![i] = ChanRecv(events[i])]
    /\ events' = [events EXCEPT ![i] = Tail(@)]
    /\ pc' = [pc EXCEPT ![i] = "handle"]
    /\ last' = Step("eventLoop", i, ChanRecv(events[i]))
    /\ UNCHANGED <<regv, nextSeq, accepted, dropped, ext, handled, running,
                   panics, roomv, msgv, userv, lockv, histv, infov>>

\* The default case of eventLoop's type switch: an unrecovered panic in a
\* goroutine ends the process.
eventLoopIllegal(i) ==
    /\ running
    /\ pc[i] = "handle"
    /\ cur[i].kind \notin {"matrix", "remote"}
    /\ running' = FALSE
    /\ panics' = panics \cup {cur[i].n}
    /\ last' = [Step("eventLoop", i, cur[i]) EXCEPT !.err = TRUE]
    /\ UNCHANGED <<regv, chanv, pc, ext, cur, handled, roomv, msgv, userv,
                   lockv, histv, infov>>

\* ------------------------------------------------------------ info updater
\* The user owning a cached login ("" : not cached)
LoginUser(l) ==
    IF \E u \in Users : l \in logins[u]
    THEN CHOOSE u \in Users : l \in logins[u] ELSE ""

\* Matrix.UserIntent(user): the MXID the intent acts as ("" : nil)
UserIntent(u) == IF u \in puppets THEN u ELSE ""

\* ghost.Intent.GetMXID()
GhostMXID(g) == IF g = "g1" THEN "@g1" ELSE "@g2"

\* portal.BridgeID
BridgeID == "bridge"

\* One call on the M-API: who made it, the event type, the state key or the
\* user it is about, the content, fi.mau.bridge.set_by, whether the M-API
\* accepted it, and its answer ("ok", "forbidden" or another "error")
Call(call, by, type, key, content, setBy, ok) ==
    [call |-> call, by |-> by, type |-> type, key |-> key,
     content |-> content, set_by |-> setBy, ok |-> ok,
     res |-> IF ok THEN "ok" ELSE "error"]

\* A Portal as an operation on its info or its members reads and writes it,
\* with the M-API calls the operation made, the other calls it made, the
\* calls whose failure it logged, and the row it saved
Meta(portal) == [portal |-> portal, api |-> <<>>, calls |-> {}, log |-> {},
                 saved |-> <<>>]

\* in.res: the M-API's answer to SendState, by event type; in.retry:
\* whether it accepts the bot's second attempt
sendRoomMeta(p, sender, eventType, stateKey, content, in) ==
    IF p.portal.MXID = 0 THEN [p |-> p, ok |-> FALSE]
    ELSE
      LET intent == IF sender # "" THEN GhostMXID(sender) ELSE Bot
          first  == [Call("SendState", intent, eventType, stateKey, content,
                          "", in.res[eventType] = "ok")
                       EXCEPT !.res = in.res[eventType]]
          retry  == Call("SendState", Bot, "m.room.name", "", content,
                         intent, in.retry)
      IN IF in.res[eventType] = "forbidden" /\ intent # Bot
         THEN [p |-> [p EXCEPT !.api = @ \o <<first, retry>>,
                               !.log = IF in.retry THEN @
                                       ELSE @ \cup {"SendState"}],
               ok |-> in.retry]
         ELSE [p |-> [p EXCEPT !.api = Append(@, first),
                               !.log = IF in.res[eventType] = "ok" THEN @
                                       ELSE @ \cup {"SendState"}],
               ok |-> in.res[eventType] = "ok"]

\* A value that is the current one is sent again whatever the flag says
upToDateUnlessSet(same, set, mxid) == same /\ ~set /\ mxid # 0

\* The guard of the three updaters: the value is the current one, and it
\* was set in the room or there is no room
upToDate(same, set, mxid) == same /\ (set \/ mxid = 0)

UpdateName(p, name, sender, in) ==
    IF upToDate(p.portal.Info.Name = name, p.portal.Info.NameSet,
                p.portal.MXID)
    THEN [p |-> p, changed |-> FALSE]
    ELSE LET sent == sendRoomMeta([p EXCEPT !.portal.Info.Name = name],
                                  sender, "m.room.name", "", <<name>>, in)
         IN [p |-> [sent.p EXCEPT !.portal.Info.NameSet = sent.ok],
             changed |-> TRUE]

UpdateTopic(p, topic, sender, in) ==
    IF upToDate(p.portal.Info.Topic = topic, p.portal.Info.TopicSet,
                p.portal.MXID)
    THEN [p |-> p, changed |-> FALSE]
    ELSE LET sent == sendRoomMeta([p EXCEPT !.portal.Info.Topic = topic],
                                  sender, "m.room.topic", "", <<topic>>, in)
         IN [p |-> [sent.p EXCEPT !.portal.Info.TopicSet = sent.ok],
             changed |-> TRUE]

\* in.up: what avatar.Reupload returns
UpdateAvatar(p, avatar, sender, in) ==
    IF upToDate(p.portal.Info.AvatarID = avatar.ID, p.portal.Info.AvatarSet,
                p.portal.MXID)
    THEN [p |-> p, changed |-> FALSE]
    ELSE
      LET p1 == [p EXCEPT !.portal.Info.AvatarID = avatar.ID]
          p2 == [p1 EXCEPT !.calls = @ \cup {"Reupload"}]
          Send(q) ==
            LET sent == sendRoomMeta(q, sender, "m.room.avatar", "",
                                     <<q.portal.Info.AvatarMXC>>, in)
            IN [p |-> [sent.p EXCEPT !.portal.Info.AvatarSet = sent.ok],
                changed |-> TRUE]
      IN IF avatar.Remove
         THEN Send([p1 EXCEPT !.portal.Info.AvatarMXC = "",
                              !.portal.Info.AvatarHash = 0])
         ELSE IF in.up.err
         THEN [p |-> [p2 EXCEPT !.portal.Info.AvatarSet = FALSE,
                                !.log = @ \cup {"Reupload"}],
               changed |-> TRUE]
         ELSE IF in.up.hash = p.portal.Info.AvatarHash
         THEN [p |-> p2, changed |-> TRUE]
         ELSE Send([p2 EXCEPT !.portal.Info.AvatarMXC = in.up.mxc,
                              !.portal.Info.AvatarHash = in.up.hash])

RECURSIVE GetTopLevelParent(_, _)

\* The instance at the top of the Parent chain of instance i (0: portal
\* itself is at the top)
GetTopLevelParent(ps, i) ==
    IF ps[i].Parent = 0 THEN i ELSE GetTopLevelParent(ps, ps[i].Parent)

\* The state key and the content: the channel section and the network
\* section
getBridgeInfo(p) ==
    LET parent == IF p.portal.Parent = 0 THEN p.portal
                  ELSE portals[GetTopLevelParent(portals, p.portal.Parent)]
    IN [stateKey |-> BridgeID,
        content  |-> <<p.portal.ID, p.portal.Info.Name,
                       p.portal.Info.AvatarMXC, parent.ID, parent.Info.Name,
                       parent.Info.AvatarMXC>>]

\* event.StateBridge
StateBridge == "m.bridge"

\* A legacy type that is the canonical type
StateHalfShotBridgeSame == "m.bridge"

\* event.StateHalfShotBridge
StateHalfShotBridge == "uk.half-shot.bridge"

UpdateBridgeInfo(p, in) ==
    IF p.portal.MXID = 0 THEN p
    ELSE LET b  == getBridgeInfo(p)
             s1 == sendRoomMeta(p, "", StateBridge, b.stateKey, b.content,
                                in)
             s2 == sendRoomMeta(s1.p, "", StateHalfShotBridge, b.stateKey,
                                b.content, in)
         IN s2.p

\* The row DB.Portal.Update writes
Row(portal) == [ID |-> portal.ID, MXID |-> portal.MXID,
                ParentID |-> portal.ParentID, Info |-> portal.Info]

\* pinfo: the PortalInfo, a field being <<>> for nil and <<v>> for a value;
\* in.save: DB.Portal.Update succeeds
UpdateInfo(p, pinfo, sender, in) ==
    LET n == IF pinfo.Name # <<>>
             THEN UpdateName(p, pinfo.Name[1], sender, in)
             ELSE [p |-> p, changed |-> FALSE]
        t == IF pinfo.Topic # <<>>
             THEN UpdateTopic(n.p, pinfo.Topic[1], sender, in)
             ELSE [p |-> n.p, changed |-> FALSE]
        a == IF pinfo.Avatar # <<>>
             THEN UpdateAvatar(t.p, pinfo.Avatar[1], sender, in)
             ELSE [p |-> t.p, changed |-> FALSE]
    IN IF n.changed \/ t.changed \/ a.changed
       THEN LET b == UpdateBridgeInfo(a.p, in)
            IN [b EXCEPT !.calls = @ \cup {"Portal.Update"},
                         !.saved = IF in.save THEN <<Row(b.portal)>> ELSE @,
                         !.log = IF in.save THEN @
                                 ELSE @ \cup {"Portal.Update"}]
       ELSE a.p

\* Records the outcome of the Reupload an UpdateInfo made, if it made one:
\* r is what UpdateInfo returned for pinfo.
Reuploaded(i, pinfo, r) ==
    reuploadFailed' =
      IF "Reupload" \in r.log
      THEN [reuploadFailed EXCEPT ![i] = pinfo.Avatar[1].ID]
      ELSE IF r.portal.Info.AvatarID # portals[i].Info.AvatarID
              \/ "Reupload" \in r.calls
      THEN [reuploadFailed EXCEPT ![i] = ""]
      ELSE reuploadFailed

\* -------------------------------------------------------- membership syncer
\* Bridge.GetUserLoginsInPortal: the cached logins the Store associates
\* with the portal
GetUserLoginsInPortal(id) ==
    {l \in LoginIDs : \E u \in Users :
        /\ l \in logins[u]
        /\ \E k \in 1..Len(dbUserPortal[u][id]) : dbUserPortal[u][id][k] = l}

\* The remote user a login is logged in as: login.Client.IsThisUser(member)
\* holds for that member only
RemoteOf(l) == IF l = "l1" THEN "g1" ELSE IF l = "l3" THEN "g2" ELSE "g3"

RECURSIVE Flatten(_)

Flatten(ss) == IF ss = <<>> THEN <<>> ELSE Head(ss) \o Flatten(Tail(ss))

\* The first loop of SyncParticipants: per member the intent that is to be
\* joined and, for a logged-in user without an intent of their own, the
\* user that is to be invited
Expected(id, mlist) ==
    [k \in 1..Len(mlist) |->
       LET ls == {l \in GetUserLoginsInPortal(id) : RemoteOf(l) = mlist[k]}
           u  == IF ls # {} THEN LoginUser(CHOOSE l \in ls : TRUE) ELSE ""
       IN [intent |-> IF u # "" /\ UserIntent(u) # "" THEN UserIntent(u)
                      ELSE GhostMXID(mlist[k]),
           extra  |-> IF u # "" /\ UserIntent(u) = "" THEN <<u>> ELSE <<>>]]

\* A loop that ends at the first call the M-API refuses
nextEntryIfOk(k, len, ok) == IF ok THEN k + 1 ELSE len + 1

\* The entry a loop goes on with after entry k: the error of the call is
\* logged and the loop continues
nextEntry(k, len, ok) == k + 1

RECURSIVE Reconcile(_, _, _, _, _)

\* The loops over expectedIntents (invite = FALSE) and expectedExtraUsers
\* (invite = TRUE) from entry k on.  s.cur: currentMembers, "" for a user
\* that is not in the map; s.mem: the membership on the M-side; in.fail:
\* the users for whom the M-API refuses the call
Reconcile(s, ids, k, invite, in) ==
    IF k > Len(ids) THEN s
    ELSE
      LET mxid == ids[k]
          need == IF invite THEN s.cur[mxid] \notin {"join", "invite"}
                  ELSE s.cur[mxid] # "join"
          ok   == mxid \notin in.fail
          call == IF invite
                  THEN Call("InviteUser", Bot, "", mxid, <<>>, "", ok)
                  ELSE Call("EnsureJoined", mxid, "", mxid, <<>>, "", ok)
          s1   == [s EXCEPT !.cur[mxid] = ""]
      IN Reconcile(IF ~need THEN s1
                   ELSE [s1 EXCEPT !.api = Append(@, call),
                                   !.mem[mxid] = IF ~ok THEN @
                                                 ELSE IF invite THEN "invite"
                                                 ELSE "join",
                                   !.log = IF ok THEN @
                                           ELSE @ \cup {call.call}],
                   ids, nextEntry(k, Len(ids), ~need \/ ok), invite, in)

RECURSIVE Remove(_, _, _)

\* The loop over what is left of currentMembers
Remove(s, left, in) ==
    IF left = {} THEN s
    ELSE
      LET mxid == CHOOSE u \in left : TRUE
          ok   == mxid \notin in.fail
          call == Call("SendState", Bot, "m.room.member", mxid,
                       <<"leave", "User is not in remote chat">>, "", ok)
      IN Remove(IF s.cur[mxid] \in {"leave", "ban"} THEN s
                ELSE [s EXCEPT !.api = Append(@, call),
                               !.mem[mxid] = IF ok THEN "leave" ELSE @,
                               !.log = IF ok THEN @ ELSE @ \cup {"leave"}],
                left \ {mxid}, in)

\* A sync that goes on to the room whether or not there is one
hasNoRoomNever(portal) == FALSE

\* portal.MXID == "" after the plan was made
hasNoRoom(portal) == portal.MXID = 0

\* mem: the membership of the portal's room on the M-side.  in.loginsErr:
\* GetUserLoginsInPortal fails; in.ghostErr: the members whose GetGhostByID
\* fails; in.membersErr: GetMembers fails.  The result holds the returned
\* id list, the error, the M-API calls and the membership afterwards.
SyncParticipants(portal, mem, mlist, in) ==
    LET plan    == Expected(portal.ID, mlist)
        intents == [k \in 1..Len(mlist) |-> plan[k].intent]
        extras  == Flatten([k \in 1..Len(mlist) |-> plan[k].extra])
        ids     == Flatten([k \in 1..Len(mlist) |->
                              plan[k].extra \o <<plan[k].intent>>])
        s0      == [ids |-> <<>>, err |-> FALSE, api |-> <<>>, log |-> {},
                    mem |-> mem, cur |-> [u \in MXIDs |-> ""],
                    panic |-> FALSE, failed |-> ""]
        got     == Call("GetMembers", Bot, "", "", <<>>, "", ~in.membersErr)
        s1      == [s0 EXCEPT !.ids = ids, !.api = <<got>>,
                              !.cur = IF in.membersErr THEN @ ELSE mem]
        s2      == Reconcile(s1, intents, 1, FALSE, in)
        s3      == Reconcile(s2, extras, 1, TRUE, in)
    IN IF in.loginsErr
       THEN [s0 EXCEPT !.err = TRUE, !.failed = "GetUserLoginsInPortal"]
       ELSE IF mlist # <<>> /\ GetUserLoginsInPortal(portal.ID) \ clients # {}
       THEN [s0 EXCEPT !.panic = TRUE]
       ELSE IF \E k \in 1..Len(mlist) : mlist[k] \in in.ghostErr
       THEN [s0 EXCEPT !.err = TRUE, !.failed = "GetGhostByID"]
       ELSE IF hasNoRoom(portal) THEN [s0 EXCEPT !.ids = ids]
       ELSE IF portal.Relay # "" THEN s3
       ELSE Remove(s3, {u \in MXIDs : s3.cur[u] # ""}, in)

\* ------------------------------------------------------------- room creator
\* Where caller c stands in CreateMatrixRoom of instance i
At(i, c) == IF c = "loop" THEN pc[i]
            ELSE IF ext.inst = i THEN ext.pc ELSE "idle"

Entry(c) == IF c = "loop" THEN "call" ELSE "idle"

\* Caller c moves to position p in CreateMatrixRoom of instance i
Goto(i, c, p) ==
    /\ pc' = IF c = "loop" THEN [pc EXCEPT ![i] = p] ELSE pc
    /\ ext' = IF c = "ext" THEN [pc |-> p, inst |-> i] ELSE ext
    /\ cur' = cur

\* CreateMatrixRoom returns to caller c and the deferred Unlock runs: the
\* pump goes on to the type switch on nil and drops the event on an error.
Return(i, c, err) ==
    /\ pc' = IF c = "loop"
             THEN [pc EXCEPT ![i] = IF err THEN "recv" ELSE "dispatch"]
             ELSE pc
    /\ ext' = IF c = "ext" THEN [pc |-> "idle", inst |-> 0] ELSE ext
    /\ cur' = IF c = "loop" /\ err THEN [cur EXCEPT ![i] = NoEvent] ELSE cur
    /\ roomCreateLock' = [roomCreateLock EXCEPT ![i] = ""]
    /\ initialMembers' = [initialMembers EXCEPT ![i] = <<>>]

\* CreateMatrixRoom without the check of MXID inside roomCreateLock
NotYetCreated(portal) == FALSE

\* portal.MXID != "" inside roomCreateLock
AlreadyCreated(portal) == portal.MXID # 0

\* roomCreateLock.Lock(), the check of MXID, GetChatInfo, UpdateInfo and
\* the first SyncParticipants (MXID is empty: nothing is published).
\* chat: the PortalInfo GetChatInfo returns.
CreateMatrixRoom(i, c, infoErr, chat, in) ==
    /\ running
    /\ At(i, c) = Entry(c)
    /\ c = "ext" => ext.pc = "idle" /\ i \in Holders
    /\ roomCreateLock[i] = ""
    /\ LET upd == UpdateInfo(Meta(portals[i]), chat, "", in)
           syn == SyncParticipants(upd.portal, [u \in MXIDs |-> ""],
                                   chat.Members, in)
       IN IF AlreadyCreated(portals[i])
          THEN /\ Return(i, c, FALSE)
               /\ last' = [Step("CreateMatrixRoom", i, NoEvent) EXCEPT
                             !.found = TRUE, !.arg = c]
               /\ UNCHANGED <<portals, dbPortal, running, histv>>
          ELSE IF infoErr
          THEN /\ Return(i, c, TRUE)
               /\ last' = [Step("CreateMatrixRoom", i, NoEvent) EXCEPT
                             !.err = TRUE, !.calls = {"GetChatInfo"},
                             !.arg = c]
               /\ UNCHANGED <<portals, dbPortal, running, histv>>
          ELSE
            /\ portals' = [portals EXCEPT ![i] = upd.portal]
            /\ dbPortal' = IF upd.saved # <<>>
                           THEN [dbPortal EXCEPT ![portals[i].ID] =
                                   upd.saved[1]]
                           ELSE dbPortal
            /\ Reuploaded(i, chat, upd)
            /\ running' = ~syn.panic
            /\ last' = [Step("CreateMatrixRoom", i, NoEvent) EXCEPT
                          !.err = syn.err \/ syn.panic,
                          !.calls = {"GetChatInfo", "SyncParticipants"}
                                    \cup upd.calls,
                          !.api = upd.api \o syn.api, !.arg = c]
            /\ IF syn.panic
               THEN UNCHANGED <<pc, ext, cur, roomCreateLock, initialMembers>>
               ELSE IF syn.err THEN Return(i, c, TRUE)
               ELSE /\ roomCreateLock' = [roomCreateLock EXCEPT ![i] = c]
                    /\ initialMembers' = [initialMembers EXCEPT
                                            ![i] = syn.ids]
                    /\ Goto(i, c, "create")
    /\ UNCHANGED <<portalsByID, portalsByMXID, returned, chanv, handled,
                   panics, nextRoom, createCalls, msgv, userv, lockv, infov>>

\* Bot.CreateRoom, which invites and joins initialMembers, and the
\* assignments up to portal.MXID = roomID
CreateMatrixRoomCall(i, c, ok) ==
    /\ running
    /\ At(i, c) = "create"
    /\ IF ~ok
       THEN /\ Return(i, c, TRUE)
            /\ last' = [Step("CreateMatrixRoom", i, NoEvent) EXCEPT
                          !.err = TRUE, !.calls = {"CreateRoom"}, !.arg = c]
            /\ UNCHANGED <<portals, nextRoom, createCalls, members>>
       ELSE /\ nextRoom <= MaxRooms
            /\ portals' = [portals EXCEPT ![i].MXID = nextRoom,
                                          ![i].Info.AvatarSet = TRUE,
                                          ![i].Info.TopicSet = TRUE,
                                          ![i].Info.NameSet = TRUE]
            /\ members' = [members EXCEPT ![nextRoom] = [u \in MXIDs |->
                             IF \/ u = Bot
                                \/ \E k \in 1..Len(initialMembers[i]) :
                                      initialMembers[i][k] = u
                             THEN "join" ELSE ""]]
            /\ nextRoom' = nextRoom + 1
            /\ createCalls' = [createCalls EXCEPT ![i] = @ + 1]
            /\ Goto(i, c, "register")
            /\ last' = [Step("CreateMatrixRoom", i, NoEvent) EXCEPT
                          !.calls = {"CreateRoom"}, !.arg = c]
            /\ UNCHANGED <<roomCreateLock, initialMembers>>
    /\ UNCHANGED <<dbPortal, portalsByID, portalsByMXID, returned, chanv,
                   handled, running, panics, msgv, userv, lockv, histv>>

\* portalsByMXID[roomID] = portal, under cacheLock
CreateMatrixRoomRegister(i, c) ==
    /\ running
    /\ At(i, c) = "register"
    /\ portalsByMXID' = [portalsByMXID EXCEPT ![portals[i].MXID] = i]
    /\ Goto(i, c, "save")
    /\ last' = [Step("CreateMatrixRoomRegister", i, NoEvent) EXCEPT
                  !.arg = c]
    /\ UNCHANGED <<dbPortal, portals, portalsByID, returned, chanv,
                   handled, running, panics, roomv, msgv, userv, lockv,
                   histv, infov>>

\* A creator that only logs the error of DB.Portal.Update
updateErrLogged(ok) == FALSE

\* The error CreateMatrixRoom returns after DB.Portal.Update
updateErr(ok) == ~ok

\* DB.Portal.Update and the return
CreateMatrixRoomSave(i, c, ok) ==
    /\ running
    /\ At(i, c) = "save"
    /\ dbPortal' = IF ok
                   THEN [dbPortal EXCEPT ![portals[i].ID] =
                           Row(portals[i])]
                   ELSE dbPortal
    /\ Return(i, c, updateErr(ok))
    /\ last' = [Step("CreateMatrixRoom", i, NoEvent) EXCEPT
                  !.err = updateErr(ok), !.calls = {"Portal.Update"},
                  !.arg = c]
    /\ UNCHANGED <<portals, portalsByID, portalsByMXID, returned, chanv,
                   handled, running, panics, nextRoom, createCalls, msgv,
                   userv, lockv, histv, infov>>

\* ------------------------------------------------------------------ locks
\* One thing a goroutine does in a routine: op is "Lock" or "Unlock" of the
\* mutex what, a "call" of what that may suspend the goroutine (Store, M-API
\* or R-Client), the "enqueue" on the portal's channel, a "local" access to
\* what, or the "check" of portal.MXID that skips the next skip operations
\* when the room exists.  code: "handler" for the methods of Portal that
\* handle events or create the room, "registry" for the lookups of Bridge,
\* "dispatcher" for the caller of queueEvent, "ticker" for the typing
\* updater
Do(code, op, what) == [code |-> code, op |-> op, what |-> what, skip |-> 0]

\* FindPreferredLogin with the Store read inside the critical section
FindPreferredLoginLocksFirst ==
    <<Do("handler", "Lock", "cacheLock"),
      Do("handler", "call", "DB.User.FindLoginsByPortalID"),
      Do("handler", "local", "user.logins"),
      Do("handler", "Unlock", "cacheLock")>>

FindPreferredLoginLocks ==
    <<Do("handler", "call", "DB.User.FindLoginsByPortalID"),
      Do("handler", "Lock", "cacheLock"),
      Do("handler", "local", "user.logins"),
      Do("handler", "Unlock", "cacheLock")>>

\* handleMatrixEvent for a message: the login, the R-Client and the Store
handleMatrixEventLocks ==
    FindPreferredLoginLocks
    \o <<Do("handler", "call", "Client.HandleMatrixMessage"),
         Do("handler", "call", "DB.Message.Insert")>>

handleMatrixTypingLocks ==
    <<Do("handler", "Lock", "currentlyTypingLock"),
      Do("handler", "local", "currentlyTyping"),
      Do("handler", "Unlock", "currentlyTypingLock")>>

\* One round of periodicTypingUpdater after its sleep
periodicTypingUpdater ==
    <<Do("ticker", "Lock", "currentlyTypingLock"),
      Do("ticker", "local", "currentlyTyping"),
      Do("ticker", "Unlock", "currentlyTypingLock")>>

\* CreateMatrixRoom: the deferred Unlock is the last operation, and the
\* check of MXID returns to it
CreateMatrixRoomLocks ==
    <<Do("handler", "Lock", "roomCreateLock"),
      [Do("handler", "check", "portal.MXID") EXCEPT !.skip = 8],
      Do("handler", "call", "Client.GetChatInfo"),
      Do("handler", "call", "DB.Portal.Update"),
      Do("handler", "call", "Bridge.GetUserLoginsInPortal"),
      Do("handler", "call", "Bot.CreateRoom"),
      Do("handler", "Lock", "cacheLock"),
      Do("handler", "local", "portalsByMXID"),
      Do("handler", "Unlock", "cacheLock"),
      Do("handler", "call", "DB.Portal.Update"),
      Do("handler", "Unlock", "roomCreateLock")>>

\* handleRemoteEvent for a message that may create the portal's room
handleRemoteEventLocks ==
    CreateMatrixRoomLocks
    \o <<Do("handler", "call", "DB.Message.GetPartByID"),
         Do("handler", "call", "intent.SendMessage"),
         Do("handler", "call", "DB.Message.Insert")>>

\* GetPortalByID of a portal that is not cached, and the queueEvent of the
\* caller
GetPortalByIDLocks ==
    <<Do("registry", "Lock", "cacheLock"),
      Do("registry", "local", "portalsByID"),
      Do("registry", "call", "DB.Portal.GetByID"),
      Do("registry", "local", "portalsByID"),
      Do("registry", "Unlock", "cacheLock"),
      Do("dispatcher", "enqueue", "events")>>

\* What a goroutine may run
Routines(t) ==
    IF t = "loop"
    THEN {handleMatrixEventLocks, handleMatrixTypingLocks,
          handleRemoteEventLocks}
    ELSE IF t = "ext" THEN {GetPortalByIDLocks, CreateMatrixRoomLocks}
    ELSE {periodicTypingUpdater}

\* The goroutine that holds a mutex of portal 1 or of the Bridge
Holder(l) == IF l = "cacheLock" THEN cacheLock
             ELSE IF l = "roomCreateLock" THEN roomCreateLock[1]
             ELSE currentlyTypingLock

\* The mutex l gets the holder h
SetHolder(l, h) ==
    /\ cacheLock' = IF l = "cacheLock" THEN h ELSE cacheLock
    /\ roomCreateLock' = IF l = "roomCreateLock"
                         THEN [roomCreateLock EXCEPT ![1] = h]
                         ELSE roomCreateLock
    /\ currentlyTypingLock' = IF l = "currentlyTypingLock" THEN h
                              ELSE currentlyTypingLock

\* What the lock operations leave alone
restv == <<portalsByID, returned, dbPortal, chanv, loopv, nextRoom,
           createCalls, initialMembers, msgv, userv, infov, histv, last>>

\* Goroutine t enters a routine.
Begin(t, code) ==
    /\ goroutine[t] = <<>>
    /\ code \in Routines(t)
    /\ goroutine' = [goroutine EXCEPT ![t] = code]
    /\ UNCHANGED <<restv, portals, portalsByMXID, cacheLock, roomCreateLock,
                   currentlyTypingLock>>

\* Goroutine t acquires the mutex it is at; it waits while the mutex is
\* held, by whomever.
DoLock(t) ==
    /\ goroutine[t] # <<>>
    /\ Head(goroutine[t]).op = "Lock"
    /\ Holder(Head(goroutine[t]).what) = ""
    /\ SetHolder(Head(goroutine[t]).what, t)
    /\ goroutine' = [goroutine EXCEPT ![t] = Tail(@)]
    /\ UNCHANGED <<restv, portals, portalsByMXID>>

DoUnlock(t) ==
    /\ goroutine[t] # <<>>
    /\ Head(goroutine[t]).op = "Unlock"
    /\ SetHolder(Head(goroutine[t]).what, "")
    /\ goroutine' = [goroutine EXCEPT ![t] = Tail(@)]
    /\ UNCHANGED <<restv, portals, portalsByMXID>>

\* Goroutine t makes its call, enqueue, access or check; CreateRoom assigns
\* the room and the access under cacheLock registers it.
DoStep(t) ==
    /\ goroutine[t] # <<>>
    /\ LET do == Head(goroutine[t])
       IN /\ do.op \in {"call", "enqueue", "local", "check"}
          /\ goroutine' = [goroutine EXCEPT ![t] =
                             IF do.op = "check" /\ portals[1].MXID # 0
                             THEN SubSeq(@, do.skip + 2, Len(@))
                             ELSE Tail(@)]
          /\ portals' = IF do.what = "Bot.CreateRoom"
                        THEN [portals EXCEPT ![1].MXID = 2,
                                             ![1].Info.AvatarSet = TRUE,
                                             ![1].Info.TopicSet = TRUE,
                                             ![1].Info.NameSet = TRUE]
                        ELSE portals
          /\ portalsByMXID' = IF do.what = "portalsByMXID"
                              THEN [portalsByMXID EXCEPT
                                      ![portals[1].MXID] = 1]
                              ELSE portalsByMXID
    /\ UNCHANGED <<restv, cacheLock, roomCreateLock, currentlyTypingLock>>

\* ------------------------------------------------- calls of the connector
\* A network connector calls portal.UpdateInfo(info, sender, ts).
CallUpdateInfo(i, pinfo, sender, in) ==
    /\ running
    /\ i \in Holders
    /\ LET r == UpdateInfo(Meta(portals[i]), pinfo, sender, in)
       IN /\ portals' = [portals EXCEPT ![i] = r.portal]
          /\ dbPortal' = IF r.saved # <<>>
                         THEN [dbPortal EXCEPT ![portals[i].ID] = r.saved[1]]
                         ELSE dbPortal
          /\ Reuploaded(i, pinfo, r)
          /\ last' = [Step("UpdateInfo", i, NoEvent) EXCEPT
                        !.calls = r.calls, !.log = r.log, !.api = r.api,
                        !.arg = [info |-> pinfo, sender |-> sender,
                                 up |-> in.up]]
    /\ UNCHANGED <<portalsByID, portalsByMXID, returned, chanv, loopv,
                   roomv, msgv, userv, lockv, infov>>

\* A network connector calls portal.SyncParticipants(members, source).
CallSyncParticipants(i, mlist, in) ==
    /\ running
    /\ i \in Holders
    /\ LET mxid == portals[i].MXID
           r    == SyncParticipants(portals[i],
                                    IF mxid # 0 THEN members[mxid]
                                    ELSE [u \in MXIDs |-> ""], mlist, in)
       IN /\ members' = IF mxid # 0 THEN [members EXCEPT ![mxid] = r.mem]
                        ELSE members
          /\ running' = ~r.panic
          /\ last' = [Step("SyncParticipants", i, NoEvent) EXCEPT
                        !.err = r.err \/ r.panic, !.log = r.log,
                        !.api = r.api,
                        !.arg = [members |-> mlist, ids |-> r.ids,
                                 failed |-> r.failed]]
    /\ UNCHANGED <<regv, chanv, pc, ext, cur, handled, panics, roomv, msgv,
                   userv, lockv, histv>>

\* A network connector calls portal.UpdateBridgeInfo().
CallUpdateBridgeInfo(i, in) ==
    /\ running
    /\ i \in Holders
    /\ LET r == UpdateBridgeInfo(Meta(portals[i]), in)
       IN last' = [Step("UpdateBridgeInfo", i, NoEvent) EXCEPT
                     !.log = r.log, !.api = r.api]
    /\ UNCHANGED <<regv, chanv, loopv, roomv, msgv, userv, lockv, histv, infov>>

\* ------------------------------------------------------------------- store
\* The message part of the state, as a handler reads and writes it, with
\* the record of what the handler did.
Messages == [db |-> dbMessage, nextRow |-> nextRow, room |-> room,
             nextMX |-> nextMX, calls |-> {}, sends |-> 0, found |-> FALSE,
             err |-> FALSE, panic |-> FALSE, log |-> {},
             reactions |-> dbReaction, typing |-> <<>>, stopped |-> <<>>,
             started |-> <<>>, pref |-> [login |-> "", err |-> ""],
             login |-> "", orig |-> [User |-> "", member |-> ""],
             intent |-> <<>>]

\* The same for a handler of Portal instance i
HandlerState(i) == [Messages EXCEPT !.typing = currentlyTyping[i]]

\* DB.Message.GetPartByMXID
GetPartByMXID(db, mxid) ==
    IF \E r \in db : r.MXID = mxid
    THEN CHOOSE r \in db : r.MXID = mxid ELSE NilMessage

\* DB.Message.GetFirstPartByID: the row of the message with the least part id
GetFirstPartByID(db, id) ==
    IF \E r \in db : r.ID = id
    THEN CHOOSE r \in db : r.ID = id /\ \A s \in db : s.ID = id
                                            => r.PartID <= s.PartID
    ELSE NilMessage

\* DB.Message.GetFirstOrSpecificPartByID (part = 0: no part id given)
GetFirstOrSpecificPartByID(db, id, part) ==
    IF part = 0 THEN GetFirstPartByID(db, id)
    ELSE IF \E r \in db : r.ID = id /\ r.PartID = part
    THEN CHOOSE r \in db : r.ID = id /\ r.PartID = part
    ELSE NilMessage

\* DB.Message.Insert: the Store assigns the RowID; (ID, PartID) is the key
Insert(m, row, ok) ==
    IF ok /\ ~\E r \in m.db : r.ID = row.ID /\ r.PartID = row.PartID
    THEN [m EXCEPT !.db = @ \cup {[row EXCEPT !.RowID = m.nextRow]},
                   !.nextRow = @ + 1,
                   !.calls = @ \cup {"Message.Insert"}]
    ELSE [m EXCEPT !.calls = @ \cup {"Message.Insert"},
                   !.log = @ \cup {"Message.Insert"}]

\* DB.Message.Update: replaces the row of that RowID
Update(m, row, ok) ==
    IF ok
    THEN [m EXCEPT !.db = {r \in @ : r.RowID # row.RowID} \cup {row},
                   !.calls = @ \cup {"Message.Update"}]
    ELSE [m EXCEPT !.calls = @ \cup {"Message.Update"},
                   !.log = @ \cup {"Message.Update"}]

\* ----------------------------------------------------------- M-side events
RECURSIVE Insort(_, _)

\* x put into the sorted list s
Insort(s, x) ==
    IF s = <<>> THEN <<x>>
    ELSE IF x <= Head(s) THEN <<x>> \o s
    ELSE <<Head(s)>> \o Insort(Tail(s), x)

RECURSIVE slicesSort(_)

\* A sort that leaves the list as it is
slicesSortNone(s) == s

\* slices.Sort; user ids are numbered in the order of strings.Compare
slicesSort(s) ==
    IF s = <<>> THEN <<>> ELSE Insort(slicesSort(Tail(s)), Head(s))

RECURSIVE SortedDiff(_, _)

\* exslices.SortedDiff: one pass over two sorted lists that yields what is
\* only in a and what is only in b
SortedDiff(a, b) ==
    IF b = <<>> THEN [uniqueToA |-> a, uniqueToB |-> <<>>]
    ELSE IF a = <<>> THEN [uniqueToA |-> <<>>, uniqueToB |-> b]
    ELSE IF Head(a) < Head(b)
    THEN [SortedDiff(Tail(a), b) EXCEPT !.uniqueToA = <<Head(a)>> \o @]
    ELSE IF Head(a) > Head(b)
    THEN [SortedDiff(a, Tail(b)) EXCEPT !.uniqueToB = <<Head(b)>> \o @]
    ELSE SortedDiff(Tail(a), Tail(b))

\* m.typing: portal.currentlyTyping, under currentlyTypingLock
handleMatrixTyping(m, evt, in) ==
    IF ~in.parsed THEN [m EXCEPT !.log = @ \cup {"content"}]
    ELSE LET UserIDs == slicesSort(evt.users)
             diff    == SortedDiff(m.typing, UserIDs)
         IN [m EXCEPT !.stopped = diff.uniqueToA,
                      !.started = diff.uniqueToB,
                      !.typing = UserIDs]

\* A portal that is taken to have no relay
HasRelayNever(portal) == FALSE

\* portal.Relay != nil
HasRelay(portal) == portal.Relay # ""

\* pick: the login the iteration over the map user.logins yields first
FindPreferredLogin(portal, user, loginsErr, pick) ==
    IF loginsErr THEN [login |-> "", err |-> "db"]
    ELSE
      LET ls     == dbUserPortal[user][portal.ID]
          usable == {k \in 1..Len(ls) : ls[k] \in logins[user]
                                        /\ ls[k] \in clients}
      IN IF usable # {}
         THEN [login |-> ls[CHOOSE k \in usable : \A j \in usable : k <= j],
               err |-> ""]
         ELSE IF HasRelay(portal) THEN [login |-> "", err |-> ""]
         ELSE IF logins[user] # {}
         THEN [login |-> IF pick \in logins[user] THEN pick
                         ELSE CHOOSE l \in logins[user] : TRUE,
               err |-> ""]
         ELSE [login |-> "", err |-> "ErrNotLoggedIn"]

\* A lookup result that is taken for a row whatever it is
NotFoundNever(editTarget) == FALSE

\* editTarget == nil
NotFound(editTarget) == editTarget = NilMessage

\* in.getErr: GetPartByMXID fails; in.clientErr: the R-Client fails;
\* in.storeErr: the Store write fails; in.rev: the row as the R-Client
\* left it
handleMatrixEdit(m, sender, evt, in) ==
    LET editTarget == GetPartByMXID(m.db, evt.ref)
    IN IF in.getErr
       THEN [m EXCEPT !.err = TRUE, !.log = @ \cup {"GetPartByMXID"}]
       ELSE IF NotFound(editTarget)
       THEN [m EXCEPT !.log = @ \cup {"edit target not found"}]
       ELSE IF sender \notin clients
       THEN [m EXCEPT !.found = TRUE, !.panic = TRUE]
       ELSE IF in.clientErr
       THEN [m EXCEPT !.found = TRUE, !.err = TRUE,
                      !.calls = @ \cup {"HandleMatrixEdit"},
                      !.log = @ \cup {"HandleMatrixEdit"}]
       ELSE Update([m EXCEPT !.found = TRUE,
                             !.calls = @ \cup {"HandleMatrixEdit"}],
                   [editTarget EXCEPT !.rev = in.rev], ~in.storeErr)

\* handleMatrixMessage without the routing of edits
IsEditNever(evt) == FALSE

\* content.RelatesTo.GetReplaceID() != ""
IsEdit(evt) == evt.ref # 0

\* in.parsed: the content is a MessageEventContent; in.rid: the id the
\* R-side gave the message
handleMatrixMessage(m, sender, evt, in) ==
    IF ~in.parsed THEN [m EXCEPT !.err = TRUE, !.log = @ \cup {"content"}]
    ELSE IF IsEdit(evt) THEN handleMatrixEdit(m, sender, evt, in)
    ELSE IF sender \notin clients THEN [m EXCEPT !.panic = TRUE]
    ELSE IF in.clientErr
    THEN [m EXCEPT !.err = TRUE, !.calls = @ \cup {"HandleMatrixMessage"},
                   !.log = @ \cup {"HandleMatrixMessage"}]
    ELSE Insert([m EXCEPT !.calls = @ \cup {"HandleMatrixMessage"}],
                [NilMessage EXCEPT !.ID = in.rid, !.PartID = 0,
                                   !.MXID = evt.id,
                                   !.sender_mxid = evt.sender],
                ~in.storeErr)

\* DB.Reaction.Upsert: (MessageID, PartID, Sender) is the key
Upsert(m, row, ok) ==
    IF ok
    THEN [m EXCEPT !.reactions =
                     {r \in @ : ~(/\ r.MessageID = row.MessageID
                                  /\ r.PartID = row.PartID
                                  /\ r.Sender = row.Sender)} \cup {row},
                   !.calls = @ \cup {"Reaction.Upsert"}]
    ELSE [m EXCEPT !.calls = @ \cup {"Reaction.Upsert"},
                   !.log = @ \cup {"Reaction.Upsert"}]

\* in.ignored: HandleMatrixReaction returns no reaction
handleMatrixReaction(m, sender, evt, in) ==
    LET reactionTarget == GetPartByMXID(m.db, evt.ref)
    IN IF ~in.parsed THEN [m EXCEPT !.err = TRUE, !.log = @ \cup {"content"}]
       ELSE IF in.getErr
       THEN [m EXCEPT !.err = TRUE, !.log = @ \cup {"GetPartByMXID"}]
       ELSE IF reactionTarget = NilMessage
       THEN [m EXCEPT !.log = @ \cup {"reaction target not found"}]
       ELSE IF sender \notin clients
       THEN [m EXCEPT !.found = TRUE, !.panic = TRUE]
       ELSE IF in.clientErr
       THEN [m EXCEPT !.found = TRUE, !.err = TRUE,
                      !.calls = @ \cup {"HandleMatrixReaction"},
                      !.log = @ \cup {"HandleMatrixReaction"}]
       ELSE IF in.ignored
       THEN [m EXCEPT !.found = TRUE,
                      !.calls = @ \cup {"HandleMatrixReaction"},
                      !.log = @ \cup {"reaction was ignored"}]
       ELSE Upsert([m EXCEPT !.found = TRUE,
                             !.calls = @ \cup {"HandleMatrixReaction"}],
                   [MessageID |-> reactionTarget.ID,
                    PartID |-> reactionTarget.PartID,
                    Sender |-> LoginUser(sender), MXID |-> evt.id],
                   ~in.storeErr)

\* DB.Reaction.GetByMXID (a record without MXID: nil)
GetByMXIDReaction(reactions, mxid) ==
    IF \E r \in reactions : r.MXID = mxid
    THEN CHOOSE r \in reactions : r.MXID = mxid
    ELSE [MessageID |-> 0, PartID |-> 0, Sender |-> "", MXID |-> 0]

\* in.getErr: GetPartByMXID fails; in.reactErr: Reaction.GetByMXID fails;
\* in.clientErr: the client's HandleMatrixMessageRemove or
\* HandleMatrixReactionRemove fails.  No row is deleted.
handleMatrixRedaction(m, sender, evt, in) ==
    LET redactionTargetMsg      == GetPartByMXID(m.db, evt.ref)
        redactionTargetReaction == GetByMXIDReaction(m.reactions, evt.ref)
        call == IF redactionTargetMsg # NilMessage
                THEN "HandleMatrixMessageRemove"
                ELSE "HandleMatrixReactionRemove"
    IN IF ~in.parsed THEN [m EXCEPT !.err = TRUE, !.log = @ \cup {"content"}]
       ELSE IF in.getErr
       THEN [m EXCEPT !.err = TRUE, !.log = @ \cup {"GetPartByMXID"}]
       ELSE IF in.reactErr
       THEN [m EXCEPT !.err = TRUE, !.log = @ \cup {"Reaction.GetByMXID"}]
       ELSE IF redactionTargetMsg = NilMessage
               /\ redactionTargetReaction.MXID = 0
       THEN [m EXCEPT !.log = @ \cup {"redaction target not found"}]
       ELSE IF sender \notin clients
       THEN [m EXCEPT !.found = TRUE, !.panic = TRUE]
       ELSE IF in.clientErr
       THEN [m EXCEPT !.found = TRUE, !.err = TRUE,
                      !.calls = @ \cup {call}, !.log = @ \cup {call}]
       ELSE [m EXCEPT !.found = TRUE, !.calls = @ \cup {call}]

\* An OrigSender that names nobody
OrigSenderNobody(sender, memberInfo) == [User |-> "", member |-> ""]

\* &OrigSender{User: sender} with the MemberEventContent
OrigSender(sender, memberInfo) == [User |-> sender, member |-> memberInfo]

\* A check that takes every sender for an authenticated one
RelayedNever(origSender) == FALSE

\* origSender != nil
Relayed(origSender) == origSender.User # ""

\* An error that is not looked at
FailedNever(found) == FALSE

\* err != nil after FindPreferredLogin
Failed(found) == found.err # ""

\* in.loginsErr: FindLoginsByPortalID fails; in.memberErr: GetMemberInfo
\* fails; in.member: the member event it returns
handleMatrixEvent(m, portal, evt, in) ==
    IF evt.type = "receipt" THEN m
    ELSE IF evt.type = "typing" THEN handleMatrixTyping(m, evt, in)
    ELSE
      LET found == FindPreferredLogin(portal, evt.sender, in.loginsErr,
                                      in.pick)
          relay == found.login = ""
          login == IF relay THEN portal.Relay ELSE found.login
          orig  == IF relay
                   THEN OrigSender(evt.sender,
                                   IF in.memberErr THEN "" ELSE in.member)
                   ELSE [User |-> "", member |-> ""]
          m1    == [m EXCEPT !.pref = found, !.login = login, !.orig = orig,
                             !.log = IF relay /\ in.memberErr
                                     THEN @ \cup {"GetMemberInfo"} ELSE @]
      IN IF Failed(found)
         THEN [m EXCEPT !.pref = found, !.err = TRUE,
                        !.log = @ \cup {"FindPreferredLogin"}]
         ELSE IF login = "" THEN [m1 EXCEPT !.panic = TRUE]
         ELSE IF evt.type \in {"message", "sticker"}
         THEN handleMatrixMessage(m1, login, evt, in)
         ELSE IF evt.type = "reaction"
         THEN IF Relayed(orig)
              THEN [m1 EXCEPT !.log = @ \cup {"reaction from relayed user"}]
              ELSE handleMatrixReaction(m1, login, evt, in)
         ELSE IF evt.type = "redaction"
         THEN handleMatrixRedaction(m1, login, evt, in)
         ELSE m1

\* ----------------------------------------------------------- R-side events
\* A sender descriptor that is never from the source login's own user
IsFromMeNever(evt) == FALSE

\* sender.IsFromMe
IsFromMe(evt) == evt.fromMe

\* The intent as the MXID it acts as ("" : nil), and whether GetGhostByID
\* was called and failed
getIntentFor(evt, ghostErr) ==
    LET own == IF IsFromMe(evt) THEN UserIntent(LoginUser(evt.source))
               ELSE ""
        usr == IF own = "" /\ evt.senderLogin # ""
                  /\ LoginUser(evt.senderLogin) # ""
               THEN UserIntent(LoginUser(evt.senderLogin)) ELSE own
    IN IF usr # "" THEN [mxid |-> usr, err |-> FALSE]
       ELSE IF ghostErr THEN [mxid |-> "", err |-> TRUE]
       ELSE [mxid |-> GhostMXID(evt.sender), err |-> FALSE]

\* A search that finds nothing
slicesContainsNever(l, x) == FALSE

\* slices.Contains
slicesContains(l, x) == \E k \in 1..Len(l) : l[k] = x

RECURSIVE sendParts(_, _, _, _, _)

\* A thread in which every part follows the thread root
prevThreadEventKept(prev, dbMsg) == prev

\* prevThreadEvent after a part was sent: the part, within a thread
prevThreadEvent(prev, dbMsg) == IF prev # NilMessage THEN dbMsg ELSE prev

\* Metadata that is left without the sender
GetMXIDNever(intent) == ""

\* intent.GetMXID(), for part.DBMetadata["sender_mxid"]
GetMXID(intent) == intent

\* The loop over converted.Parts from part k on.  c: the intent, the reply
\* target, the thread root and relatesToRowID; prev: prevThreadEvent;
\* in.send / in.insert: the parts whose SendMessage / Insert succeeds;
\* in.mentions: the Mentions.UserIDs the converter gave the parts; a stored
\* sender_mxid of "" stands for a row whose Metadata has none.
sendParts(m, k, c, prev, in) ==
    IF k > c.evt.parts THEN m
    ELSE
      LET threaded == c.threadRoot # NilMessage /\ prev # NilMessage
          mentions == IF /\ c.replyTo # NilMessage
                         /\ c.replyTo.sender_mxid # ""
                         /\ ~slicesContains(in.mentions,
                                            c.replyTo.sender_mxid)
                      THEN Append(in.mentions, c.replyTo.sender_mxid)
                      ELSE in.mentions
          sent     == [mxid |-> m.nextMX, rid |-> c.evt.id, part |-> k,
                       thread |-> IF threaded THEN c.threadRoot.MXID ELSE 0,
                       reply |-> IF c.replyTo # NilMessage
                                 THEN c.replyTo.MXID
                                 ELSE IF threaded THEN prev.MXID ELSE 0,
                       mentions |-> mentions, sender |-> c.intent,
                       edits |-> 0, redaction |-> FALSE]
          dbMsg    == [RowID |-> 0, ID |-> c.evt.id, PartID |-> k,
                       MXID |-> m.nextMX,
                       RelatesToRowID |-> c.relatesToRowID,
                       sender_mxid |-> GetMXID(c.intent), rev |-> 0]
          tried    == [m EXCEPT !.sends = @ + 1,
                                !.calls = @ \cup {"SendMessage"}]
      IN IF k \notin in.send
         THEN sendParts([tried EXCEPT !.log = @ \cup {"SendMessage"}],
                        k + 1, c, prev, in)
         ELSE sendParts(Insert([tried EXCEPT !.room = Append(@, sent),
                                             !.nextMX = @ + 1],
                               dbMsg, k \in in.insert),
                        k + 1, c, prevThreadEvent(prev, dbMsg), in)

\* A duplicate check that never matches
DuplicateNever(existing, lookupErr) == FALSE

\* err == nil && existing != nil
Duplicate(existing, lookupErr) == ~lookupErr /\ existing # NilMessage

\* The reply target where the thread root belongs
relatesToRowIDOfReply(replyTo, threadRoot) ==
    IF replyTo # NilMessage THEN replyTo.RowID ELSE threadRoot.RowID

\* relatesToRowID after both lookups: the assignment from the thread root
\* comes last
relatesToRowID(replyTo, threadRoot) ==
    IF threadRoot # NilMessage THEN threadRoot.RowID ELSE replyTo.RowID

\* in.dupErr, in.replyErr, in.threadErr: the Store lookups fail;
\* in.ghostErr: GetGhostByID fails; in.convertErr: ConvertMessage fails
handleRemoteMessage(m0, evt, in) ==
    LET existing == GetFirstPartByID(m0.db, evt.id)
        m == [m0 EXCEPT !.log =
                (IF in.dupErr THEN {"GetFirstPartByID"} ELSE {})
                \cup (IF evt.ref # 0 /\ in.replyErr
                      THEN {"GetFirstOrSpecificPartByID(ReplyTo)"} ELSE {})
                \cup (IF evt.thread # 0 /\ in.threadErr
                      THEN {"GetFirstOrSpecificPartByID(ThreadRoot)"}
                      ELSE {})]
    IN IF Duplicate(existing, in.dupErr) THEN [m0 EXCEPT !.found = TRUE]
       ELSE
         LET got        == getIntentFor(evt, in.ghostErr)
             intent     == got.mxid
             replyTo    == IF evt.ref # 0 /\ ~in.replyErr
                           THEN GetFirstOrSpecificPartByID(m.db, evt.ref,
                                                           evt.refPart)
                           ELSE NilMessage
             threadRoot == IF evt.thread # 0 /\ ~in.threadErr
                           THEN GetFirstOrSpecificPartByID(m.db, evt.thread, 0)
                           ELSE NilMessage
             nilDeref   == \/ evt.ref # 0 /\ ~in.replyErr
                              /\ replyTo = NilMessage
                           \/ evt.thread # 0 /\ ~in.threadErr
                              /\ threadRoot = NilMessage
             c == [evt |-> evt, intent |-> intent, replyTo |-> replyTo,
                   threadRoot |-> threadRoot,
                   relatesToRowID |-> relatesToRowID(replyTo, threadRoot)]
         IN IF intent = "" \/ in.convertErr
            THEN [m0 EXCEPT !.err = TRUE, !.intent = <<got>>,
                            !.log = (IF in.dupErr THEN {"GetFirstPartByID"}
                                     ELSE {})
                                    \cup (IF intent = "" THEN {"GetGhostByID"}
                                          ELSE {"ConvertMessage"})]
            ELSE IF nilDeref
            THEN [m EXCEPT !.panic = TRUE, !.intent = <<got>>]
            ELSE sendParts([m EXCEPT !.intent = <<got>>], 1, c, threadRoot,
                           in)

\* DB.Message.GetAllPartsByID
GetAllPartsByID(db, id) == {r \in db : r.ID = id}

\* DB.Message.Delete
Delete(m, rowID, ok) ==
    IF ok
    THEN [m EXCEPT !.db = {r \in @ : r.RowID # rowID},
                   !.calls = @ \cup {"Message.Delete"}]
    ELSE [m EXCEPT !.calls = @ \cup {"Message.Delete"},
                   !.log = @ \cup {"Message.Delete"}]

RECURSIVE editParts(_, _, _, _, _)

\* The loops over converted.ModifiedParts (redact = FALSE) and over
\* converted.DeletedParts (redact = TRUE); parts: the rows still to do
editParts(m, parts, redact, intent, in) ==
    IF parts = {} THEN m
    ELSE
      LET part  == CHOOSE r \in parts : \A q \in parts : r.PartID <= q.PartID
          sent  == [mxid |-> m.nextMX, rid |-> part.ID, part |-> part.PartID,
                    thread |-> 0, reply |-> 0, mentions |-> <<>>,
                    sender |-> intent, edits |-> part.MXID,
                    redaction |-> redact]
          tried == [m EXCEPT !.sends = @ + 1,
                             !.calls = @ \cup {"SendMessage"}]
          done  == IF in.sendOK
                   THEN [tried EXCEPT !.room = Append(@, sent),
                                      !.nextMX = @ + 1]
                   ELSE [tried EXCEPT !.log = @ \cup {"SendMessage"}]
      IN editParts(IF redact THEN Delete(done, part.RowID, ~in.storeErr)
                   ELSE Update(done, [part EXCEPT !.rev = 1], ~in.storeErr),
                   parts \ {part}, redact, intent, in)

\* in.getErr: GetAllPartsByID fails; in.ghostErr: GetGhostByID fails;
\* in.convertErr: ConvertEdit fails; in.modified, in.deleted: the part ids
\* of converted.ModifiedParts and converted.DeletedParts
handleRemoteEdit(m, evt, in) ==
    LET existing == GetAllPartsByID(m.db, evt.ref)
        got      == getIntentFor(evt, in.ghostErr)
        m1       == [m EXCEPT !.found = TRUE, !.intent = <<got>>]
    IN IF in.getErr
       THEN [m EXCEPT !.err = TRUE, !.log = @ \cup {"GetAllPartsByID"}]
       ELSE IF existing = {}
       THEN [m EXCEPT !.log = @ \cup {"edit target not found"}]
       ELSE IF got.mxid = ""
       THEN [m1 EXCEPT !.err = TRUE, !.log = @ \cup {"GetGhostByID"}]
       ELSE IF in.convertErr
       THEN [m1 EXCEPT !.err = TRUE, !.log = @ \cup {"ConvertEdit"}]
       ELSE LET mod == {r \in existing : r.PartID \in in.modified}
                del == {r \in existing : r.PartID \in in.deleted}
            IN editParts(editParts(m1, mod, FALSE, got.mxid, in),
                         del, TRUE, got.mxid, in)

\* The type switch of handleRemoteEvent, after the gate on portal.MXID
handleRemoteEvent(m, evt, in) ==
    IF evt.type = "message" THEN handleRemoteMessage(m, evt, in)
    ELSE IF evt.type = "edit" THEN handleRemoteEdit(m, evt, in)
    ELSE m

\* ------------------------------------------------------------ pump actions
\* The handler returns to eventLoop, or panics and ends the process.
Finish(i, op, m) ==
    /\ dbMessage' = m.db
    /\ nextRow' = m.nextRow
    /\ room' = m.room
    /\ nextMX' = m.nextMX
    /\ dbReaction' = m.reactions
    /\ currentlyTyping' = [currentlyTyping EXCEPT ![i] = m.typing]
    /\ running' = ~m.panic
    /\ panics' = IF m.panic THEN panics \cup {cur[i].n} ELSE panics
    /\ pc' = IF m.panic THEN pc ELSE [pc EXCEPT ![i] = "recv"]
    /\ ext' = ext
    /\ cur' = IF m.panic THEN cur ELSE [cur EXCEPT ![i] = NoEvent]
    /\ last' = [Step(op, i, cur[i]) EXCEPT !.err = m.err \/ m.panic,
                  !.found = m.found, !.calls = m.calls, !.sends = m.sends,
                  !.log = m.log, !.stopped = m.stopped,
                  !.started = m.started, !.pref = m.pref,
                  !.login = m.login, !.orig = m.orig, !.intent = m.intent]

\* The user ids a converted part mentions before the reply target's sender
\* is added
Mentions == {<<>>, <<"u2">>, <<"@g1", "u2">>}

\* What the Store, the R-Client and the M-API answer while an M-side event
\* is handled; only the answers the handler of that event asks for vary.
MatrixIns(evt) ==
    LET B(used) == IF used THEN BOOLEAN ELSE {FALSE}
        msg    == evt.type \in {"message", "sticker"}
        react  == evt.type = "reaction"
        redact == evt.type = "redaction"
        edit   == msg /\ evt.ref # 0
        routed == msg \/ react \/ redact
    IN [loginsErr : B(routed),
        pick : IF routed THEN LoginIDs ELSE {"l1"},
        memberErr : B(routed), member : {"member"},
        parsed : IF routed \/ evt.type = "typing" THEN BOOLEAN ELSE {TRUE},
        getErr : B(edit \/ react \/ redact), reactErr : B(redact),
        clientErr : B(routed), storeErr : B(msg \/ react),
        ignored : B(react),
        rid : IF msg /\ ~edit THEN RemoteIDs ELSE {1},
        rev : IF edit THEN 0..1 ELSE {0}]

\* The same for an R-side event
RemoteIns(evt) ==
    LET B(used) == IF used THEN BOOLEAN ELSE {FALSE}
        msg  == evt.type = "message"
        edit == evt.type = "edit"
    IN [dupErr : B(msg), ghostErr : B(msg \/ edit),
        convertErr : B(msg \/ edit),
        replyErr : B(msg /\ evt.ref # 0),
        threadErr : B(msg /\ evt.thread # 0),
        send : IF msg THEN SUBSET (1..evt.parts) ELSE {{}},
        insert : IF msg THEN SUBSET (1..evt.parts) ELSE {{}},
        mentions : IF msg /\ evt.ref # 0 THEN Mentions ELSE {<<>>},
        getErr : B(edit), sendOK : B(edit), storeErr : B(edit),
        modified : IF edit THEN SUBSET (1..evt.parts) ELSE {{}},
        deleted : IF edit THEN SUBSET (1..evt.parts) ELSE {{}}]

\* case *portalMatrixEvent: portal.handleMatrixEvent(evt.sender, evt.evt)
eventLoopMatrix(i, in) ==
    /\ running
    /\ pc[i] = "handle"
    /\ cur[i].kind = "matrix"
    /\ handled' = [handled EXCEPT ![i] = Append(@, cur[i].n)]
    /\ Finish(i, "handleMatrixEvent",
              handleMatrixEvent(HandlerState(i), portals[i], cur[i], in))
    /\ UNCHANGED <<regv, chanv, roomv, userv, lockv, histv, infov>>

\* An event that always asks for the room
ShouldCreatePortalAlways(evt) == TRUE

\* evt.ShouldCreatePortal()
ShouldCreatePortal(evt) == evt.create

\* case *portalRemoteEvent: handleRemoteEvent up to the gate on portal.MXID
eventLoopRemote(i) ==
    /\ running
    /\ pc[i] = "handle"
    /\ cur[i].kind = "remote"
    /\ handled' = [handled EXCEPT ![i] = Append(@, cur[i].n)]
    /\ IF portals[i].MXID # 0
       THEN pc' = [pc EXCEPT ![i] = "dispatch"] /\ cur' = cur
       ELSE IF ShouldCreatePortal(cur[i])
       THEN pc' = [pc EXCEPT ![i] = "call"] /\ cur' = cur
       ELSE /\ pc' = [pc EXCEPT ![i] = "recv"]
            /\ cur' = [cur EXCEPT ![i] = NoEvent]
    /\ last' = Step("handleRemoteEvent", i, cur[i])
    /\ UNCHANGED <<regv, chanv, ext, running, panics, roomv, msgv, userv,
                   lockv, histv, infov>>

\* handleRemoteEvent from the type switch on
eventLoopDispatch(i, in) ==
    /\ running
    /\ pc[i] = "dispatch"
    /\ Finish(i, IF cur[i].type = "message" THEN "handleRemoteMessage"
                  ELSE IF cur[i].type = "edit" THEN "handleRemoteEdit"
                  ELSE "handleRemoteOther",
              handleRemoteEvent(HandlerState(i), cur[i], in))
    /\ UNCHANGED <<regv, chanv, handled, roomv, userv, lockv, histv, infov>>

\* --------------------------------------------------------- initial states
EmptyStore == [p \in PortalIDs |-> NilRow]

\* The Store as an earlier run of the bridge left it: portal pa with its
\* room and a parent that has no row yet
InitStores ==
    { [EmptyStore EXCEPT !["pa"] = [ID |-> "pa", MXID |-> 1,
                                    ParentID |-> "pb",
                                    Info |-> SetInfo]] }

InitUsers ==
    /\ logins = [u \in Users |-> IF u = "u1" THEN {"l1", "l3"}
                                ELSE IF u = "u3" THEN {"l2"} ELSE {}]
    /\ clients = {"l1", "l2"}
    /\ dbUserPortal = [u \in Users |-> [p \in PortalIDs |->
                         IF u = "u1" /\ p = "pa" THEN <<"l3", "l1">>
                         ELSE <<>>]]
    /\ puppets = {"u1"}

InitCore ==
    /\ events = [i \in Inst |-> <<>>]
    /\ nextSeq = 0
    /\ accepted = [i \in Inst |-> <<>>]
    /\ dropped = {}
    /\ cur = [i \in Inst |-> NoEvent]
    /\ ext = [pc |-> "idle", inst |-> 0]
    /\ handled = [i \in Inst |-> <<>>]
    /\ running = TRUE
    /\ panics = {}
    /\ roomCreateLock = [i \in Inst |-> ""]
    /\ nextRoom = 2
    /\ createCalls = [i \in Inst |-> 0]
    /\ initialMembers = [i \in Inst |-> <<>>]
    /\ dbMessage = {}
    /\ nextRow = 1
    /\ room = <<>>
    /\ nextMX = 1
    /\ dbReaction = {}
    /\ currentlyTyping = [i \in Inst |-> <<>>]
    /\ members = [r \in RoomIDs |-> [u \in MXIDs |->
                    IF r = 1 /\ u \in {Bot, "u2"} THEN "join" ELSE ""]]
    /\ cacheLock = ""
    /\ currentlyTypingLock = ""
    /\ goroutine = [t \in Threads |-> <<>>]
    /\ reuploadFailed = [i \in Inst |-> ""]
    /\ last = Step("", 0, NoEvent)

InitRest == InitCore /\ InitUsers

\* A row of the portal table with that parent
StoredPortal(id, mxid, parent) ==
    [ID |-> id, MXID |-> mxid, ParentID |-> parent, Info |-> SetInfo]

\* Stores whose ParentID columns form a chain, name a portal without a row,
\* name the portal itself, or form a cycle of two portals
ParentStores ==
    { [EmptyStore EXCEPT !["pa"] = StoredPortal("pa", 1, "pb"),
                         !["pb"] = StoredPortal("pb", 2, "")],
      [EmptyStore EXCEPT !["pa"] = StoredPortal("pa", 1, "pb")],
      [EmptyStore EXCEPT !["pa"] = StoredPortal("pa", 1, "pa")],
      [EmptyStore EXCEPT !["pa"] = StoredPortal("pa", 1, "pb"),
                         !["pb"] = StoredPortal("pb", 2, "pa")] }

\* The Bridge after construction on such a Store: nothing is loaded.
InitParent ==
    /\ dbPortal \in ParentStores
    /\ portals = <<>>
    /\ portalsByID = [p \in PortalIDs |-> 0]
    /\ portalsByMXID = [r \in RoomIDs |-> 0]
    /\ returned = {}
    /\ pc = [i \in Inst |-> "none"]
    /\ InitRest

\* The Bridge after construction: nothing is loaded.
Init ==
    /\ dbPortal \in InitStores
    /\ portals = <<>>
    /\ portalsByID = [p \in PortalIDs |-> 0]
    /\ portalsByMXID = [r \in RoomIDs |-> 0]
    /\ returned = {}
    /\ pc = [i \in Inst |-> "none"]
    /\ InitRest

\* The Bridge after GetPortalByID("pa") on a Store that holds the portal,
\* with its room or before its room was created.
InitInfo ==
    /\ \E mxid \in {0, 1} :
         LET row == [ID |-> "pa", MXID |-> mxid, ParentID |-> "",
                     Info |-> IF mxid = 0 THEN NoInfo ELSE SetInfo]
         IN /\ dbPortal = [EmptyStore EXCEPT !["pa"] = row]
            /\ portals = <<[ID |-> "pa", MXID |-> mxid, ParentID |-> "",
                            Parent |-> 0, Relay |-> "", Info |-> row.Info]>>
            /\ portalsByMXID = [r \in RoomIDs |-> IF r = mxid THEN 1 ELSE 0]
    /\ portalsByID = [p \in PortalIDs |-> IF p = "pa" THEN 1 ELSE 0]
    /\ returned = {<<"pa", 1>>}
    /\ pc = [i \in Inst |-> IF i = 1 THEN "recv" ELSE "none"]
    /\ InitRest

\* The Bridge after GetPortalByID("pa") on a Store that holds the portal
\* with or without its room; every login in the portal has a client.
InitGate ==
    /\ \E mxid \in {0, 1} :
         LET row == [ID |-> "pa", MXID |-> mxid, ParentID |-> "",
                     Info |-> IF mxid = 0 THEN NoInfo ELSE SetInfo]
         IN /\ dbPortal = [EmptyStore EXCEPT !["pa"] = row]
            /\ portals = <<[ID |-> "pa", MXID |-> mxid, ParentID |-> "",
                            Parent |-> 0, Relay |-> "", Info |-> row.Info]>>
            /\ portalsByMXID = [r \in RoomIDs |-> IF r = mxid THEN 1 ELSE 0]
    /\ portalsByID = [p \in PortalIDs |-> IF p = "pa" THEN 1 ELSE 0]
    /\ returned = {<<"pa", 1>>}
    /\ pc = [i \in Inst |-> IF i = 1 THEN "recv" ELSE "none"]
    /\ InitCore
    /\ logins = [u \in Users |-> IF u = "u1" THEN {"l1", "l3"}
                                ELSE IF u = "u3" THEN {"l2"} ELSE {}]
    /\ clients = {"l1", "l2", "l3"}
    /\ dbUserPortal = [u \in Users |-> [p \in PortalIDs |->
                         IF u = "u1" /\ p = "pa" THEN <<"l1">> ELSE <<>>]]
    /\ puppets = {"u1"}

\* The Bridge after GetPortalByID("pa") on a Store that holds the portal
\* with its room, with or without the login l2 as its relay; the user u1
\* has two logins in the portal, with or without an intent of their own.
InitSync ==
    /\ dbPortal = [EmptyStore EXCEPT
                     !["pa"] = [ID |-> "pa", MXID |-> 1, ParentID |-> "",
                                Info |-> SetInfo]]
    /\ \E relay \in {"", "l2"} :
         portals = <<[ID |-> "pa", MXID |-> 1, ParentID |-> "", Parent |-> 0,
                      Relay |-> relay, Info |-> SetInfo]>>
    /\ portalsByID = [p \in PortalIDs |-> IF p = "pa" THEN 1 ELSE 0]
    /\ portalsByMXID = [r \in RoomIDs |-> IF r = 1 THEN 1 ELSE 0]
    /\ returned = {<<"pa", 1>>}
    /\ pc = [i \in Inst |-> IF i = 1 THEN "recv" ELSE "none"]
    /\ InitCore
    /\ logins = [u \in Users |-> IF u = "u1" THEN {"l1", "l3"}
                                ELSE IF u = "u3" THEN {"l2"} ELSE {}]
    /\ clients = {"l1", "l2", "l3"}
    /\ dbUserPortal = [u \in Users |-> [p \in PortalIDs |->
                         IF u = "u1" /\ p = "pa" THEN <<"l1", "l3">>
                         ELSE <<>>]]
    /\ puppets \in {{"u1"}, {}}

\* The Bridge after GetPortalByID("pa") on a Store that holds the portal
\* with its room, and after the bridge set or did not set the login l2 as
\* the portal's relay.
InitRelay ==
    /\ dbPortal = [EmptyStore EXCEPT
                     !["pa"] = [ID |-> "pa", MXID |-> 1, ParentID |-> "",
                                Info |-> SetInfo]]
    /\ \E relay \in {"", "l2"} :
         portals = <<[ID |-> "pa", MXID |-> 1, ParentID |-> "", Parent |-> 0,
                      Relay |-> relay, Info |-> SetInfo]>>
    /\ portalsByID = [p \in PortalIDs |-> IF p = "pa" THEN 1 ELSE 0]
    /\ portalsByMXID = [r \in RoomIDs |-> IF r = 1 THEN 1 ELSE 0]
    /\ returned = {<<"pa", 1>>}
    /\ pc = [i \in Inst |-> IF i = 1 THEN "recv" ELSE "none"]
    /\ InitRest

\* The Bridge after GetPortalByID("pa") on a Store that holds the portal
\* with its room.
InitLoaded ==
    /\ dbPortal = [EmptyStore EXCEPT
                     !["pa"] = [ID |-> "pa", MXID |-> 1, ParentID |-> "",
                                Info |-> SetInfo]]
    /\ portals = <<[ID |-> "pa", MXID |-> 1, ParentID |-> "", Parent |-> 0,
                    Relay |-> "", Info |-> SetInfo]>>
    /\ portalsByID = [p \in PortalIDs |-> IF p = "pa" THEN 1 ELSE 0]
    /\ portalsByMXID = [r \in RoomIDs |-> IF r = 1 THEN 1 ELSE 0]
    /\ returned = {<<"pa", 1>>}
    /\ pc = [i \in Inst |-> IF i = 1 THEN "recv" ELSE "none"]
    /\ InitRest

\* ------------------------------------------------------------------ inputs
\* The event as the dispatcher hands it to queueEvent: the n-th event, with
\* the event id the M-side gave it.
Stamp(e) == [e EXCEPT !.n = nextSeq + 1,
                      !.id = IF e.kind = "matrix"
                             THEN 100 + nextSeq + 1 ELSE @]

Receipt == [NoEvent EXCEPT !.kind = "matrix", !.type = "receipt",
                           !.sender = "u1"]

Remote(type, create) ==
    [NoEvent EXCEPT !.kind = "remote", !.type = type, !.create = create,
                    !.sender = "g1", !.source = "l1", !.id = 1, !.parts = 1]

Illegal == [NoEvent EXCEPT !.kind = "illegal"]

\* The lists of that length in which no user occurs twice
Distinct(len) ==
    {l \in [1..len -> 1..MaxTypers] : \A j, k \in 1..len : l[j] = l[k] => j = k}

\* The m.typing events: user_ids lists the users who are typing
TypingEvents ==
    {[NoEvent EXCEPT !.kind = "matrix", !.type = "typing", !.users = l] :
       l \in UNION {Distinct(len) : len \in 0..MaxTypers}}

\* The events of the registry specification
LightEvents == {Remote("reaction", TRUE), Illegal}

MatrixMessage(sender, ref) ==
    [NoEvent EXCEPT !.kind = "matrix", !.type = "message", !.sender = sender,
                    !.ref = ref]

RemoteMessage(id, ref, parts) ==
    [Remote("message", TRUE) EXCEPT !.id = id, !.ref = ref, !.parts = parts]

MatrixReaction(sender, ref) ==
    [NoEvent EXCEPT !.kind = "matrix", !.type = "reaction",
                    !.sender = sender, !.ref = ref]

\* An R-side message of that many parts, or an edit of the message ref that
\* knows that many parts of it, with the sender descriptor and the login the
\* event came in on
RemoteFrom(type, id, ref, parts, fromMe, senderLogin, source) ==
    [Remote(type, TRUE) EXCEPT !.id = id, !.ref = ref, !.parts = parts,
                               !.fromMe = fromMe,
                               !.senderLogin = senderLogin,
                               !.source = source]

\* The events of the intent specification: the sender descriptor names the
\* source login's user or not, and a login of a double-puppeted user (l3),
\* of a user without double puppeting (l2), an uncached login (l9) or none
IntentEvents ==
    {RemoteFrom("message", 1, 0, 1, me, sl, src) :
       me \in BOOLEAN, sl \in {"", "l3", "l2", "l9"}, src \in {"l1", "l2"}}
    \cup {RemoteFrom("edit", 2, 1, 1, me, sl, "l2") :
            me \in BOOLEAN, sl \in {"", "l3"}}

MatrixRedaction(sender, redacts) ==
    [NoEvent EXCEPT !.kind = "matrix", !.type = "redaction",
                    !.sender = sender, !.ref = redacts]

\* The events of the relay specification: messages of every user, and
\* reactions to and redactions of the first event
RelayEvents ==
    {MatrixMessage(u, 0) : u \in Users}
    \cup {MatrixReaction(u, 101) : u \in Users}
    \cup {MatrixRedaction(u, 101) : u \in {"u1", "u2"}}

\* The events of the thread specification: a message of two parts,
\* messages that reply to its second part, belong to its thread, both or
\* neither, and a message of two parts in its thread
ThreadEvents ==
    {RemoteMessage(1, 0, 2)}
    \cup {[RemoteMessage(2, ref, 1) EXCEPT
             !.refPart = IF ref = 0 THEN 0 ELSE 2, !.thread = thread] :
            ref \in {0, 1}, thread \in {0, 1}}
    \cup {[RemoteMessage(2, 0, 2) EXCEPT !.thread = 1]}

\* The events of the message specification
MsgEvents ==
    {MatrixMessage("u1", 0), MatrixMessage("u1", 1), MatrixMessage("u2", 1)}
    \cup {RemoteMessage(1, 0, parts) : parts \in 1..MaxParts}
    \cup {RemoteMessage(2, 1, parts) : parts \in 1..MaxParts}

\* What the M-API answers to SendState, by event type
StateTypes == {"m.room.name", "m.room.topic", "m.room.avatar", StateBridge,
               StateHalfShotBridge}

NoUpload == [err |-> TRUE, mxc |-> "", hash |-> 0]

\* The answers of the Store, the M-API and Reupload when nothing fails
Quiet == [res |-> [t \in StateTypes |-> "ok"], retry |-> TRUE,
          up |-> NoUpload, save |-> TRUE, loginsErr |-> FALSE,
          ghostErr |-> {}, membersErr |-> FALSE, fail |-> {}]

\* What avatar.Reupload returns: an error, or the content URI and the hash
Reuploads == {NoUpload, [err |-> FALSE, mxc |-> "mxc1", hash |-> 1],
              [err |-> FALSE, mxc |-> "mxc2", hash |-> 2]}

NoPortalInfo == [Name |-> <<>>, Topic |-> <<>>, Avatar |-> <<>>,
                 Members |-> <<>>]

\* The PortalInfo values of the info specification
PortalInfos ==
    {[NoPortalInfo EXCEPT !.Name = <<"n1">>],
     [NoPortalInfo EXCEPT !.Topic = <<"t1">>]}
    \cup {[NoPortalInfo EXCEPT !.Avatar = <<[ID |-> a, Remove |-> r]>>] :
            a \in {"a1", "a2"}, r \in BOOLEAN}

\* The answers while the info of pinfo is updated for sender; only the
\* answers UpdateInfo asks for vary: Reupload answers a new avatar only, the
\* second attempt is made for a ghost that was forbidden only.  Either the
\* update's own event fails or the bridge info events do.
InfoIns(pinfo, sender) ==
    LET R(used) == IF used THEN {"ok", "forbidden", "error"} ELSE {"ok"}
        all == {[Quiet EXCEPT !.res = [t \in StateTypes |->
                                         IF t = "m.room.name" THEN n
                                         ELSE IF t = "m.room.topic" THEN tp
                                         ELSE IF t = "m.room.avatar" THEN a
                                         ELSE b],
                              !.retry = again, !.up = up] :
                  n \in R(pinfo.Name # <<>>), tp \in R(pinfo.Topic # <<>>),
                  a \in R(pinfo.Avatar # <<>>), b \in {"ok", "error"},
                  again \in BOOLEAN,
                  up \in IF pinfo.Avatar # <<>> /\ ~pinfo.Avatar[1].Remove
                         THEN Reuploads ELSE {NoUpload}}
        own == {"m.room.name", "m.room.topic", "m.room.avatar"}
    IN {in \in all :
          /\ in.res[StateBridge] = "ok" \/ \A t \in own : in.res[t] = "ok"
          /\ in.retry \/ (sender # "" /\ \E t \in own :
                                            in.res[t] = "forbidden")}

\* The member lists of the membership specification
MemberLists == {<<>>, <<"g1">>, <<"g2">>, <<"g1", "g2">>}

\* The answers while the members are synced
SyncIns ==
    {[Quiet EXCEPT !.loginsErr = le, !.ghostErr = ge, !.membersErr = me,
                   !.fail = f] :
       le \in BOOLEAN, ge \in {{}, {"g2"}}, me \in BOOLEAN,
       f \in {{}, {Bot}, {"@g1"}, {"u1"}}}

\* The PortalInfo GetChatInfo returns in the registry specification
ChatInfo == [Name |-> <<"n1">>, Topic |-> <<>>, Avatar |-> <<>>,
             Members |-> <<"g1">>]

\* The answers while a room is created: the Store may fail
CreateIns == {[Quiet EXCEPT !.save = s, !.loginsErr = e] : s, e \in BOOLEAN}

\* -------------------------------------------------------------- next state
\* The Store's behaviour during one lookup: the portal ids whose GetByID
\* fails, those whose Insert fails, and whether GetByMXID fails.  Only the
\* ids the lookup can come to ask the Store about vary.
Envs(hit, byMXID) ==
    IF hit THEN {[qerr |-> {}, ierr |-> {}, merr |-> FALSE]}
    ELSE [qerr : SUBSET {p \in PortalIDs : portalsByID[p] = 0},
          ierr : SUBSET {p \in PortalIDs : dbPortal[p].ID = ""},
          merr : IF byMXID THEN BOOLEAN ELSE {FALSE}]

Next ==
    \/ \E id \in PortalIDs : \E env \in Envs(portalsByID[id] # 0, FALSE) :
          GetPortalByID(id, env)
    \/ \E id \in PortalIDs : \E env \in Envs(portalsByID[id] # 0, FALSE) :
          GetExistingPortalByID(id, env)
    \/ \E mxid \in RoomIDs : \E env \in Envs(portalsByMXID[mxid] # 0, TRUE) :
          GetPortalByMXID(mxid, env)
    \/ \E i \in Inst, e \in LightEvents :
          nextSeq < MaxEvents /\ queueEvent(i, Stamp(e))
    \/ \E i \in Inst : eventLoop(i)
    \/ \E i \in Inst : eventLoopRemote(i)
    \/ \E i \in Inst : \E in \in RemoteIns(cur[i]) : eventLoopDispatch(i, in)
    \/ \E i \in Inst : eventLoopIllegal(i)
    \/ \E i \in Inst, c \in Callers, e \in BOOLEAN, in \in CreateIns :
          CreateMatrixRoom(i, c, e, ChatInfo, in)
    \/ \E i \in Inst, c \in Callers, ok \in BOOLEAN :
          CreateMatrixRoomCall(i, c, ok)
    \/ \E i \in Inst, c \in Callers : CreateMatrixRoomRegister(i, c)
    \/ \E i \in Inst, c \in Callers, ok \in BOOLEAN :
          CreateMatrixRoomSave(i, c, ok)

Spec == Init /\ [][Next]_vars

\* One loaded portal with or without a room, R-side messages that ask for
\* the room or do not, the pump, and the room creator called by the pump and
\* by a network connector
NextGate ==
    \/ \E create \in BOOLEAN :
          /\ nextSeq < MaxGateEvents
          /\ queueEvent(1, Stamp(Remote("message", create)))
    \/ eventLoop(1)
    \/ eventLoopRemote(1)
    \/ \E in \in RemoteIns(cur[1]) : eventLoopDispatch(1, in)
    \/ \E c \in Callers, e \in BOOLEAN, in \in CreateIns :
          CreateMatrixRoom(1, c, e, ChatInfo, in)
    \/ \E c \in Callers, ok \in BOOLEAN : CreateMatrixRoomCall(1, c, ok)
    \/ \E c \in Callers : CreateMatrixRoomRegister(1, c)
    \/ \E c \in Callers, ok \in BOOLEAN : CreateMatrixRoomSave(1, c, ok)

SpecGate == InitGate /\ [][NextGate]_vars

\* The PortalInfo GetChatInfo returns in the avatar specification
AvatarChatInfo == [Name |-> <<"n1">>, Topic |-> <<>>,
                  Avatar |-> <<[ID |-> "a1", Remove |-> FALSE]>>,
                  Members |-> <<"g1">>]

\* The PortalInfo values of the avatar specification
AvatarInfos ==
    {[NoPortalInfo EXCEPT !.Avatar = <<[ID |-> a, Remove |-> FALSE]>>] :
       a \in {"a1", "a2"}}

\* The answers while an avatar is updated
AvatarIns == {[Quiet EXCEPT !.up = up, !.res["m.room.avatar"] = a] :
                up \in Reuploads, a \in {"ok", "error"}}

\* One loaded portal whose avatar a goroutine of the network connector
\* updates, before and after it has the room created; the goroutine makes
\* one call at a time
NextAvatar ==
    \/ \E pinfo \in AvatarInfos, in \in AvatarIns :
          ext.pc = "idle" /\ CallUpdateInfo(1, pinfo, "", in)
    \/ \E e \in BOOLEAN, in \in AvatarIns :
          CreateMatrixRoom(1, "ext", e, AvatarChatInfo, in)
    \/ \E ok \in BOOLEAN : CreateMatrixRoomCall(1, "ext", ok)
    \/ CreateMatrixRoomRegister(1, "ext")
    \/ \E ok \in BOOLEAN : CreateMatrixRoomSave(1, "ext", ok)

SpecAvatar == InitGate /\ [][NextAvatar]_vars

\* The goroutines of one loaded portal at the grain of their lock
\* operations
NextLock ==
    \/ \E t \in Threads : \E code \in Routines(t) : Begin(t, code)
    \/ \E t \in Threads : DoLock(t)
    \/ \E t \in Threads : DoUnlock(t)
    \/ \E t \in Threads : DoStep(t)

SpecLock == InitGate /\ [][NextLock]_vars

\* One loaded portal with its room and R-side messages with replies and
\* threads
NextThread ==
    \/ \E e \in ThreadEvents :
          nextSeq < MaxThreadEvents /\ queueEvent(1, Stamp(e))
    \/ eventLoop(1)
    \/ eventLoopRemote(1)
    \/ \E in \in RemoteIns(cur[1]) : eventLoopDispatch(1, in)

SpecThread == InitLoaded /\ [][NextThread]_vars

\* The lookups alone, on Stores with every shape of ParentID
NextParent ==
    \/ \E id \in PortalIDs : \E env \in Envs(portalsByID[id] # 0, FALSE) :
          GetPortalByID(id, env)
    \/ \E id \in PortalIDs : \E env \in Envs(portalsByID[id] # 0, FALSE) :
          GetExistingPortalByID(id, env)
    \/ \E mxid \in RoomIDs : \E env \in Envs(portalsByMXID[mxid] # 0, TRUE) :
          GetPortalByMXID(mxid, env)

SpecParent == InitParent /\ [][NextParent]_vars

\* One loaded portal, a dispatcher that submits read receipts until the
\* channel has overflowed, and the pump.
NextQueue ==
    \/ nextSeq < PortalEventBuffer + MaxOverflow /\ queueEvent(1, Stamp(Receipt))
    \/ eventLoop(1)
    \/ \E in \in MatrixIns(cur[1]) : eventLoopMatrix(1, in)

SpecQueue == InitLoaded /\ [][NextQueue]_vars

\* One loaded portal whose info a network connector updates
NextInfo ==
    \/ \E pinfo \in PortalInfos, sender \in {"", "g1"} :
          \E in \in InfoIns(pinfo, sender) :
             CallUpdateInfo(1, pinfo, sender, in)
    \/ \E b \in {"ok", "error"} :
          CallUpdateBridgeInfo(1, [Quiet EXCEPT !.res[StateBridge] = b])

SpecInfo == InitInfo /\ [][NextInfo]_vars

\* One loaded portal whose members a network connector syncs
NextSync ==
    \E mlist \in MemberLists, in \in SyncIns :
       CallSyncParticipants(1, mlist, in)

SpecSync == InitSync /\ [][NextSync]_vars

\* One loaded portal and the typing notifications of its room
NextTyping ==
    \/ \E e \in TypingEvents : nextSeq < MaxTyping /\ queueEvent(1, Stamp(e))
    \/ eventLoop(1)
    \/ \E in \in MatrixIns(cur[1]) : eventLoopMatrix(1, in)

SpecTyping == InitLoaded /\ [][NextTyping]_vars

\* One loaded portal with its room and R-side messages and edits of senders
\* of every kind
NextIntent ==
    \/ \E e \in IntentEvents :
          nextSeq < MaxIntentEvents /\ queueEvent(1, Stamp(e))
    \/ eventLoop(1)
    \/ eventLoopRemote(1)
    \/ \E in \in RemoteIns(cur[1]) : eventLoopDispatch(1, in)

SpecIntent == InitLoaded /\ [][NextIntent]_vars

\* One loaded portal with or without a relay, and M-side events of users
\* with and without logins
NextRelay ==
    \/ \E e \in RelayEvents :
          nextSeq < MaxRelayEvents /\ queueEvent(1, Stamp(e))
    \/ eventLoop(1)
    \/ \E in \in MatrixIns(cur[1]) : eventLoopMatrix(1, in)

SpecRelay == InitRelay /\ [][NextRelay]_vars

\* One loaded portal with its room, messages from both sides, and the pump.
NextMsg ==
    \/ \E e \in MsgEvents : nextSeq < MaxMsgEvents /\ queueEvent(1, Stamp(e))
    \/ eventLoop(1)
    \/ \E in \in MatrixIns(cur[1]) : eventLoopMatrix(1, in)
    \/ eventLoopRemote(1)
    \/ \E in \in RemoteIns(cur[1]) : eventLoopDispatch(1, in)

SpecMsg == InitLoaded /\ [][NextMsg]_vars

\* ------------------------------------------------------------------ claims
Lookups == {"GetPortalByID", "GetExistingPortalByID", "GetPortalByMXID"}

\* The event eventLoop has received and not yet handed to a handler
Pending(i) == IF pc[i] = "handle" THEN <<cur[i].n>> ELSE <<>>

Queued(i) == [k \in 1..Len(events[i]) |-> events[i][k].n]

\* C1: per Portal, the events accepted by queueEvent are handed to the
\* handlers in exactly the order of their acceptance: the handled events,
\* the one in the pump's hand and the queued ones are the accepted ones,
\* in order.
FifoPerPortal ==
    \A i \in Inst : accepted[i] = handled[i] \o Pending(i) \o Queued(i)

FifoWitness ==
    /\ Len(handled[1]) >= 2
    /\ Len(events[1]) >= 2
    /\ dropped # {}

\* The instances of portal id p whose pump is inside a handler
Handling(p) == {i \in 1..Len(portals) :
                  portals[i].ID = p /\ pc[i] \notin {"none", "recv"}}

\* C2: at most one handler invocation is in progress for a portal.
SerialPerPortal == \A p \in PortalIDs : Cardinality(Handling(p)) <= 1

SerialWitness ==
    \E i \in 1..Len(portals) :
        /\ pc[i] = "dispatch"
        /\ events[i] # <<>>
        /\ last.op \in Lookups
        /\ last.inst = i

\* C3: the channel never holds more than PortalEventBuffer events, a dropped
\* event is neither queued nor handled, and a queueEvent on a full channel
\* drops the event and leaves the channel and the pump as they are.
QueueBounded ==
    /\ [](\A i \in Inst :
            /\ Len(events[i]) <= PortalEventBuffer
            /\ \A k \in 1..Len(accepted[i]) : accepted[i][k] \notin dropped
            /\ \A k \in 1..Len(handled[i]) : handled[i][k] \notin dropped)
    /\ [][(last'.op = "queueEvent"
            /\ Len(events[last'.inst]) = PortalEventBuffer)
          => /\ events' = events
             /\ accepted' = accepted
             /\ pc' = pc
             /\ last'.evt.n \in dropped']_vars

QueueWitness ==
    /\ last.op = "queueEvent"
    /\ last.err
    /\ Len(events[1]) = PortalEventBuffer
    /\ last.evt.n \in dropped

\* C4: every Portal with a room is the entry of portalsByID for its id and
\* of portalsByMXID for its room.
RegistryInvariant ==
    \A i \in 1..Len(portals) :
        portals[i].MXID # 0 =>
            /\ portalsByID[portals[i].ID] = i
            /\ portalsByMXID[portals[i].MXID] = i

\* The instances of portal id p whose eventLoop was started
Pumps(p) == {i \in 1..Len(portals) : portals[i].ID = p /\ pc[i] # "none"}

\* C5: all lookups that return a Portal for one portal id return the same
\* instance, and at most one eventLoop is started for the id.
OneInstancePerPortalID ==
    /\ \A x \in returned, y \in returned : x[1] = y[1] => x[2] = y[2]
    /\ \A p \in PortalIDs : Cardinality(Pumps(p)) <= 1

OneInstanceWitness ==
    /\ last.op = "GetPortalByMXID"
    /\ last.inst # 0
    /\ createCalls[last.inst] = 1
    /\ Cardinality(returned) = 2

Creating == {"create", "register", "save"}

\* C6: at most one CreateRoom call succeeds per Portal, a caller that finds
\* MXID set inside roomCreateLock returns nil without any call, and the
\* pump and the non-pump caller are never both past the lock.
OneCreateRoom ==
    /\ \A i \in Inst : createCalls[i] <= 1
    /\ (last.op = "CreateMatrixRoom" /\ last.found)
          => ~last.err /\ last.calls = {}
    /\ \A i \in Inst : ~(pc[i] \in Creating /\ At(i, "ext") \in Creating)

OneCreateRoomWitness ==
    /\ last.op = "CreateMatrixRoom"
    /\ last.found
    /\ createCalls[last.inst] = 1
    /\ pc[last.inst] = "dispatch"

\* C7: when CreateMatrixRoom returns an error, portal.MXID is empty.
FailureLeavesMXIDEmpty ==
    (last.op = "CreateMatrixRoom" /\ last.err) => portals[last.inst].MXID = 0

\* C8: a panic while an event is handled leaves the pump running.
PanicKeepsPump == panics # {} => running

\* C9: when the Store holds a part of the R-message and the lookup by its
\* id does not fail, handleRemoteMessage sends nothing to the M-side and
\* leaves the message rows as they are.
DuplicateIgnored ==
    [][(/\ last'.op = "handleRemoteMessage"
        /\ \E r \in dbMessage : r.ID = last'.evt.id
        /\ "GetFirstPartByID" \notin last'.log)
       => /\ dbMessage' = dbMessage
          /\ room' = room
          /\ last'.sends = 0]_vars

DuplicateWitness ==
    /\ last.op = "handleRemoteMessage"
    /\ last.found
    /\ \E e \in 1..Len(room) : room[e].rid = last.evt.id
    /\ \E r \in dbMessage : r.ID = last.evt.id

\* The step handles an M-message with ReplaceID set whose target is in the
\* Store
EditOfPresent ==
    /\ last'.op = "handleMatrixEvent"
    /\ last'.evt.type = "message"
    /\ last'.evt.ref # 0
    /\ \E r \in dbMessage : r.MXID = last'.evt.ref

NoNewRow == {r.RowID : r \in dbMessage'} = {r.RowID : r \in dbMessage}

\* C10, as stated: an M-message with ReplaceID set and the target in the
\* Store inserts no row and updates the target's row.
EditUpdatesTarget ==
    [][EditOfPresent
       => /\ NoNewRow
          /\ "Message.Update" \in last'.calls
          /\ "Message.Update" \notin last'.log]_vars

\* C10, amended: an M-message with ReplaceID set and the target in the
\* Store inserts no row; Message.Update is issued exactly when
\* HandleMatrixEdit was called and succeeded, it touches the target's row
\* only, and without a successful Update the rows are left as they are.
EditUpdatesOnSuccess ==
    [][EditOfPresent
       => /\ NoNewRow
          /\ "Message.Update" \in last'.calls
               <=> ("HandleMatrixEdit" \in last'.calls
                    /\ "HandleMatrixEdit" \notin last'.log)
          /\ {r \in dbMessage' : r.MXID # last'.evt.ref}
               = {r \in dbMessage : r.MXID # last'.evt.ref}
          /\ ("Message.Update" \notin last'.calls
              \/ "Message.Update" \in last'.log) => dbMessage' = dbMessage]_vars

EditWitness ==
    /\ last.op = "handleMatrixEvent"
    /\ last.evt.ref # 0
    /\ "Message.Update" \in last.calls
    /\ \E r \in dbMessage : r.MXID = last.evt.ref /\ r.rev = 1

\* C11: an M-message with ReplaceID set whose target is not in the Store
\* makes no call on the R-Client and writes nothing to the Store.
EditOfUnknownDropped ==
    [][(/\ last'.op = "handleMatrixEvent"
        /\ last'.evt.type = "message"
        /\ last'.evt.ref # 0
        /\ ~\E r \in dbMessage : r.MXID = last'.evt.ref)
       => /\ last'.calls = {}
          /\ dbMessage' = dbMessage
          /\ nextRow' = nextRow]_vars

EditOfUnknownWitness ==
    /\ last.op = "handleMatrixEvent"
    /\ last.evt.ref # 0
    /\ "edit target not found" \in last.log
    /\ ~\E r \in dbMessage : r.MXID = last.evt.ref

\* The number of state events of type m.room.avatar among M-API calls
AvatarSends(api) ==
    Cardinality({k \in 1..Len(api) : api[k].type = "m.room.avatar"})

\* C12: after UpdateAvatar on a portal with MXID set, when Reupload returns
\* a hash equal to the stored AvatarHash no state event is sent and
\* AvatarSet is true, and when it returns another hash exactly one
\* m.room.avatar state event is sent.
AvatarEventOnNewHash ==
    [][(/\ last'.op = "UpdateInfo"
        /\ last'.arg.info.Avatar # <<>>
        /\ portals[last'.inst].MXID # 0
        /\ "Reupload" \in last'.calls
        /\ ~last'.arg.up.err)
       => IF last'.arg.up.hash = portals[last'.inst].Info.AvatarHash
          THEN /\ AvatarSends(last'.api) = 0
               /\ portals'[last'.inst].Info.AvatarSet
          ELSE AvatarSends(last'.api) = 1]_vars

\* The calls are the two state events of UpdateBridgeInfo
TwoBridgeEvents(api) ==
    /\ Len(api) = 2
    /\ \A k \in 1..2 : api[k].call = "SendState" /\ api[k].key = BridgeID
    /\ api[1].type = "m.bridge"
    /\ api[2].type = "uk.half-shot.bridge"
    /\ api[1].content = api[2].content

\* C13, as stated: every call of UpdateBridgeInfo sends exactly two state
\* events, one of type m.bridge and one of type uk.half-shot.bridge, both
\* with the state key BridgeID.
BridgeInfoAlwaysTwo ==
    [][last'.op = "UpdateBridgeInfo" => TwoBridgeEvents(last'.api)]_vars

\* C13, amended: a call of UpdateBridgeInfo on a portal with MXID set issues
\* exactly two SendState calls whatever their outcome, one of type m.bridge
\* and one of type uk.half-shot.bridge, both with the state key BridgeID and
\* the same content; on a portal with MXID empty it issues none.
BridgeInfoTwoWithRoom ==
    [][last'.op = "UpdateBridgeInfo"
       => IF portals[last'.inst].MXID # 0
          THEN TwoBridgeEvents(last'.api)
          ELSE last'.api = <<>>]_vars

BridgeInfoWitness ==
    /\ last.op = "UpdateBridgeInfo"
    /\ portals[last.inst].MXID # 0
    /\ Len(last.api) = 2
    /\ ~last.api[1].ok

\* A SyncParticipants call that returned nil and whose M-API calls all
\* succeeded
SyncSucceeded(st) ==
    /\ st.op = "SyncParticipants"
    /\ ~st.err
    /\ \A k \in 1..Len(st.api) : st.api[k].ok

\* C14: when SyncParticipants runs twice in a row with the same member list
\* on a portal with MXID set and all M-API calls succeed, the second pass
\* leaves the membership as it is and issues no invite and no leave.
SyncTwiceIdempotent ==
    [][(/\ SyncSucceeded(last)
        /\ SyncSucceeded(last')
        /\ last'.inst = last.inst
        /\ last'.arg.members = last.arg.members
        /\ portals[last.inst].MXID # 0)
       => /\ members' = members
          /\ \A k \in 1..Len(last'.api) :
                /\ last'.api[k].call # "InviteUser"
                /\ last'.api[k].type # "m.room.member"]_vars

\* The elements of a list
Elems(l) == {l[k] : k \in 1..Len(l)}

\* C15: handleMatrixTyping computes stopped = previous \ incoming and
\* started = incoming \ previous, and afterwards currentlyTyping is the
\* incoming list sorted.
TypingDiff ==
    [][(/\ last'.op = "handleMatrixEvent"
        /\ last'.evt.type = "typing"
        /\ "content" \notin last'.log)
       => LET prev == currentlyTyping[last'.inst]
              inc  == last'.evt.users
              now  == currentlyTyping'[last'.inst]
          IN /\ Elems(last'.stopped) = Elems(prev) \ Elems(inc)
             /\ Len(last'.stopped) = Cardinality(Elems(last'.stopped))
             /\ Elems(last'.started) = Elems(inc) \ Elems(prev)
             /\ Len(last'.started) = Cardinality(Elems(last'.started))
             /\ Len(now) = Len(inc)
             /\ Elems(now) = Elems(inc)
             /\ \A k \in 1..(Len(now) - 1) : now[k] <= now[k + 1]]_vars

TypingWitness ==
    /\ last.op = "handleMatrixEvent"
    /\ last.evt.type = "typing"
    /\ last.stopped = <<1>>
    /\ last.started = <<3>>
    /\ last.evt.users = <<3, 2>>
    /\ currentlyTyping[1] = <<2, 3>>

\* The logins FindPreferredLogin takes for usable: associated with the portal
\* in the Store, cached on the user, and with a client
Usable(user, portal) ==
    {l \in LoginIDs : /\ l \in Elems(dbUserPortal[user][portal.ID])
                      /\ l \in logins[user]
                      /\ l \in clients}

\* The handler ran on an event that is not ephemeral, and the Store answered
\* the query for the logins of the sender in the portal
Routed(type) ==
    /\ last.op = "handleMatrixEvent"
    /\ last.evt.type = type
    /\ last.pref.err # "db"

\* C16: a new M-side message whose content parses, from a user with no usable
\* login in a portal with a relay, reaches HandleMatrixMessage of the
\* relay's client with OrigSender.User the M-side sender, and with an empty
\* MemberEventContent when GetMemberInfo failed
RelayRouting ==
    (/\ Routed("message")
     /\ last.evt.ref = 0
     /\ "content" \notin last.log
     /\ Usable(last.evt.sender, portals[last.inst]) = {}
     /\ portals[last.inst].Relay # "")
    => /\ "HandleMatrixMessage" \in last.calls
       /\ last.login = portals[last.inst].Relay
       /\ last.orig.User = last.evt.sender
       /\ "GetMemberInfo" \in last.log => last.orig.member = ""

RelayRoutingWitness ==
    /\ Routed("message")
    /\ last.evt.sender = "u2"
    /\ "HandleMatrixMessage" \in last.calls
    /\ last.login = "l2"
    /\ last.orig = [User |-> "u2", member |-> ""]
    /\ "GetMemberInfo" \in last.log

\* C17: a reaction from a user with no usable login in a portal with a relay
\* makes no call of a client and writes nothing to the Store
ReactionsNeverRelayed ==
    [][(/\ last'.op = "handleMatrixEvent"
        /\ last' # last
        /\ last'.evt.type = "reaction"
        /\ last'.pref.err # "db"
        /\ Usable(last'.evt.sender, portals[last'.inst]) = {}
        /\ portals[last'.inst].Relay # "")
       => /\ last'.calls = {}
          /\ dbReaction' = dbReaction
          /\ dbMessage' = dbMessage]_vars

\* The reaction's target is in the Store and everything the handler would ask
\* for succeeds, yet the reaction is dropped
ReactionsNeverRelayedWitness ==
    /\ Routed("reaction")
    /\ last.evt.sender = "u2"
    /\ portals[1].Relay = "l2"
    /\ \E r \in dbMessage : r.MXID = last.evt.ref
    /\ "reaction from relayed user" \in last.log
    /\ last.calls = {}
    /\ dbReaction = {}

\* C18: when the Store answers, FindPreferredLogin returns a usable login of
\* the user in the portal if there is one, else (nil, nil) if the portal has
\* a relay, else some login of the user if there is one, else
\* ErrNotLoggedIn; it returns (nil, nil) only when the portal has a relay
LoginPriority ==
    (/\ last.op = "handleMatrixEvent"
     /\ last.evt.type \in {"message", "reaction"}
     /\ last.pref.err # "db")
    => LET user   == last.evt.sender
           portal == portals[last.inst]
           found  == last.pref
       IN /\ IF Usable(user, portal) # {}
             THEN found.login \in Usable(user, portal) /\ found.err = ""
             ELSE IF portal.Relay # ""
             THEN found = [login |-> "", err |-> ""]
             ELSE IF logins[user] # {}
             THEN found.login \in logins[user] /\ found.err = ""
             ELSE found = [login |-> "", err |-> "ErrNotLoggedIn"]
          /\ found = [login |-> "", err |-> ""] => portal.Relay # ""

\* A user whose only login is not associated with the portal, in a portal
\* without a relay, gets that login
LoginPriorityWitness ==
    /\ last.op = "handleMatrixEvent"
    /\ last.evt.type = "message"
    /\ last.evt.sender = "u3"
    /\ portals[1].Relay = ""
    /\ last.pref = [login |-> "l2", err |-> ""]

\* The user a cached login belongs to, as the caches hold it
Owner(l) == IF \E u \in Users : l \in logins[u]
            THEN CHOOSE u \in Users : l \in logins[u] ELSE ""

\* The handler of an R-side message or edit reached getIntentFor
AskedIntent ==
    /\ last.op \in {"handleRemoteMessage", "handleRemoteEdit"}
    /\ last.intent # <<>>

\* C19 as stated: the intent is the source login's user's own intent if
\* IsFromMe, else that of the user of the cached login SenderLogin names,
\* else the ghost's; it is nil only when the ghost lookup failed
IntentByDescriptor ==
    AskedIntent
    => LET evt == last.evt
           got == last.intent[1]
       IN /\ IF evt.fromMe THEN got.mxid = Owner(evt.source)
             ELSE IF Owner(evt.senderLogin) # ""
             THEN got.mxid = Owner(evt.senderLogin)
             ELSE got.mxid = (IF got.err THEN "" ELSE GhostMXID(evt.sender))
          /\ got.mxid = "" => got.err

\* C19, amended: a step of the priority order is taken only when it yields
\* an intent.  The intent is the source login's user's own intent if
\* IsFromMe and that user has one (double puppeting), else the intent of
\* the user of the cached login SenderLogin names if that user has one, else
\* the ghost's; it is nil only when the ghost lookup failed, and then the
\* handler sends nothing to the room and writes nothing to the Store
IntentPriority ==
    [][(/\ last'.op \in {"handleRemoteMessage", "handleRemoteEdit"}
        /\ last'.intent # <<>>
        /\ last' # last)
       => LET evt == last'.evt
              got == last'.intent[1]
              own == IF evt.fromMe /\ Owner(evt.source) \in puppets
                     THEN Owner(evt.source) ELSE ""
              usr == IF Owner(evt.senderLogin) \in puppets
                     THEN Owner(evt.senderLogin) ELSE ""
          IN /\ got.mxid = (IF own # "" THEN own
                            ELSE IF usr # "" THEN usr
                            ELSE IF got.err THEN ""
                            ELSE GhostMXID(evt.sender))
             /\ got.mxid = "" => got.err
             /\ got.mxid = "" => /\ last'.calls = {}
                                 /\ last'.sends = 0
                                 /\ room' = room
                                 /\ dbMessage' = dbMessage]_vars

\* A message went out under the own intent of u1, and the ghost lookup fails
\* while an edit of that message, from a user without double puppeting, is
\* handled
IntentPriorityWitness ==
    /\ AskedIntent
    /\ last.op = "handleRemoteEdit"
    /\ last.found
    /\ last.evt.fromMe
    /\ last.intent = <<[mxid |-> "", err |-> TRUE]>>
    /\ \E e \in Elems(room) : e.sender = "u1"
    /\ last.calls = {}

\* How often x occurs in the list l
Count(l, x) == Cardinality({k \in 1..Len(l) : l[k] = x})

\* C20: when an R-side message replies to a message the Store holds, every
\* part sent to the room has in_reply_to = the event id of the reply target,
\* and mentions the sender_mxid stored with the target exactly once
ReplyThreading ==
    [][(/\ last'.op = "handleRemoteMessage"
        /\ last' # last
        /\ last'.evt.ref # 0
        /\ "GetFirstOrSpecificPartByID(ReplyTo)" \notin last'.log
        /\ GetFirstPartByID(dbMessage, last'.evt.ref) # NilMessage)
       => LET target == GetFirstPartByID(dbMessage, last'.evt.ref)
          IN \A k \in (Len(room) + 1)..Len(room') :
               /\ room'[k].reply = target.MXID
               /\ target.sender_mxid # ""
                  => Count(room'[k].mentions, target.sender_mxid) = 1]_vars

\* A reply of two parts went out whose converter had already mentioned the
\* target's sender, the ghost of g1, before another user
ReplyThreadingWitness ==
    /\ last.op = "handleRemoteMessage"
    /\ last.evt.ref = 1
    /\ Len(room) = 3
    /\ room[1].rid = 1
    /\ room[1].sender = "@g1"
    /\ \A k \in 2..3 : /\ room[k].rid = 2
                        /\ room[k].reply = room[1].mxid
                        /\ room[k].mentions = <<"@g1", "u2">>

\* The M-API accepted a state event of that type carrying that value
Accepted(api, type, value) ==
    \E k \in 1..Len(api) : /\ api[k].call = "SendState"
                            /\ api[k].type = type
                            /\ api[k].content = <<value>>
                            /\ api[k].ok

\* A state event of that type was sent
Sent(api, type) == \E k \in 1..Len(api) : api[k].type = type

\* C21: after an UpdateName, UpdateTopic or UpdateAvatar call on a portal
\* with MXID set that sent its state event, NameSet (TopicSet, AvatarSet) is
\* true iff the M-API accepted a state event of the corresponding type that
\* carries the stored value
SetFlagIffAccepted ==
    [][(/\ last'.op = "UpdateInfo"
        /\ portals[last'.inst].MXID # 0)
       => LET info == portals'[last'.inst].Info
              arg  == last'.arg.info
              api  == last'.api
          IN /\ arg.Name # <<>> /\ Sent(api, "m.room.name")
                => (info.NameSet <=> Accepted(api, "m.room.name", info.Name))
             /\ arg.Topic # <<>> /\ Sent(api, "m.room.topic")
                => (info.TopicSet
                    <=> Accepted(api, "m.room.topic", info.Topic))
             /\ arg.Avatar # <<>> /\ Sent(api, "m.room.avatar")
                => (info.AvatarSet
                    <=> Accepted(api, "m.room.avatar", info.AvatarMXC))]_vars

\* C22: a state event that sendRoomMeta sent through a ghost intent and that
\* the M-API rejected as Forbidden is followed by exactly one retry, by the
\* bridge bot, of the same event type, state key and content, with
\* fi.mau.bridge.set_by the ghost's MXID; a Forbidden answer to the bot is
\* followed by no retry
ForbiddenFallback ==
    [][last'.op = "UpdateInfo"
       => LET api == last'.api
              Retry(k) == k <= Len(api) /\ api[k].set_by # ""
          IN \A k \in 1..Len(api) :
               (/\ api[k].call = "SendState"
                /\ api[k].res = "forbidden"
                /\ ~Retry(k))
               => IF api[k].by # Bot
                  THEN /\ Retry(k + 1)
                       /\ ~Retry(k + 2)
                       /\ api[k + 1].by = Bot
                       /\ api[k + 1].set_by = api[k].by
                       /\ api[k + 1].type = api[k].type
                       /\ api[k + 1].key = api[k].key
                       /\ api[k + 1].content = api[k].content
                  ELSE ~Retry(k + 1)]_vars

RECURSIVE ReachesTop(_, _)

\* GetTopLevelParent, called on instance i, returns within n calls
ReachesTop(i, n) ==
    IF portals[i].Parent = 0 THEN TRUE
    ELSE IF n = 0 THEN FALSE
    ELSE ReachesTop(portals[i].Parent, n - 1)

\* C23: whatever ParentID columns the Store holds, the lookups build no
\* cycle of Parent references, and GetTopLevelParent returns for every
\* Portal of the registry: the walk up from any Portal passes no more
\* Portals than there are
ParentAcyclic ==
    \A i \in 1..Len(portals) : ReachesTop(i, Len(portals))

\* The portals the Store has a row of
Rows(db) == {id \in PortalIDs : db[id].ID # ""}

\* C24 as stated, in its part on the Store: GetExistingPortalByID and
\* GetPortalByMXID never insert a row
LookupNeverInserts ==
    [][last'.op \in {"GetExistingPortalByID", "GetPortalByMXID"}
       => Rows(dbPortal') = Rows(dbPortal)]_vars

\* C24, amended: GetPortalByID on an id that neither the cache nor the Store
\* holds, when it returns no error, has inserted a row of that id and
\* registered the Portal it returns.  GetExistingPortalByID and
\* GetPortalByMXID never insert a row of the portal asked for; when neither
\* the cache nor the Store holds it and the Store answers, they return nil
\* without error and leave the registry and the Store as they are.  A row
\* they may insert is that of the absent parent of a portal they load.
LookupCreation ==
    [][/\ (/\ last'.op = "GetPortalByID"
           /\ portalsByID[last'.arg] = 0
           /\ dbPortal[last'.arg].ID = ""
           /\ ~last'.err)
          => /\ dbPortal'[last'.arg].ID = last'.arg
             /\ last'.inst # 0
             /\ portalsByID'[last'.arg] = last'.inst
             /\ portals'[last'.inst].ID = last'.arg
       /\ (/\ last'.op = "GetExistingPortalByID"
           /\ portalsByID[last'.arg] = 0
           /\ dbPortal[last'.arg].ID = "")
          => /\ dbPortal'[last'.arg].ID = ""
             /\ ~last'.err => last'.inst = 0 /\ UNCHANGED regv
       /\ (/\ last'.op = "GetPortalByMXID"
           /\ portalsByMXID[last'.arg] = 0
           /\ GetByMXID(dbPortal, last'.arg) = NilRow)
          => /\ GetByMXID(dbPortal', last'.arg) = NilRow
             /\ ~last'.err => last'.inst = 0 /\ UNCHANGED regv]_vars

\* GetPortalByID has created the row and the Portal of pb, and then
\* GetPortalByMXID has found no portal for a room
LookupCreationWitness ==
    /\ last.op = "GetPortalByMXID"
    /\ last.arg = 2
    /\ ~last.err
    /\ last.inst = 0
    /\ dbPortal["pb"].ID = "pb"
    /\ portalsByID["pb"] # 0
    /\ portalsByID["pa"] = 0

\* The positions of a pump inside CreateMatrixRoom
InCreator == {"call", "create", "register", "save"}

\* C25: for an R-side event taken up while portal.MXID is empty,
\* CreateMatrixRoom is called iff ShouldCreatePortal() is true.  If it is
\* false, or CreateMatrixRoom returns an error, the event is dropped: the
\* pump takes the next event, and nothing was sent to the room or written to
\* the Message or Reaction tables.  If CreateMatrixRoom returns nil the same
\* event goes on to the type switch, which runs only with MXID set.
RemoteEventGate ==
    [][\A i \in Inst :
         /\ (/\ last'.op = "handleRemoteEvent"
             /\ last'.inst = i
             /\ pc[i] = "handle"
             /\ portals[i].MXID = 0)
            => /\ pc'[i] = "call" <=> cur[i].create
               /\ ~cur[i].create => /\ pc'[i] = "recv"
                                    /\ cur'[i] = NoEvent
                                    /\ UNCHANGED msgv
         /\ (pc[i] \in InCreator /\ pc'[i] \notin InCreator)
            => IF last'.err
               THEN /\ pc'[i] = "recv"
                    /\ cur'[i] = NoEvent
                    /\ UNCHANGED msgv
               ELSE /\ pc'[i] = "dispatch"
                    /\ cur'[i] = cur[i]
                    /\ portals'[i].MXID # 0
         /\ pc[i] \in InCreator => UNCHANGED msgv
         /\ pc[i] = "dispatch"
            => portals[i].MXID # 0 /\ cur[i].kind = "remote"]_vars

\* The pump's own CreateMatrixRoom has just returned nil, and the event that
\* asked for the room waits for the type switch
RemoteEventGateWitness ==
    /\ last.op = "CreateMatrixRoom"
    /\ last.arg = "loop"
    /\ last.calls = {"Portal.Update"}
    /\ ~last.err
    /\ pc[last.inst] = "dispatch"
    /\ cur[last.inst].create
    /\ createCalls[last.inst] = 1

\* C26: after an M-side redaction whose target Message is in the Store and
\* whose HandleMatrixMessageRemove call succeeded, the Store holds no row of
\* the target
RedactionDeletes ==
    [][(/\ last'.op = "handleMatrixEvent"
        /\ last'.evt.type = "redaction"
        /\ "HandleMatrixMessageRemove" \in last'.calls
        /\ ~last'.err)
       => ~\E r \in dbMessage' : r.MXID = last'.evt.ref]_vars

\* The types of the M-side events that are routed through a login
RoutedTypes == {"message", "reaction", "redaction"}

\* C27 as stated: an M-side event that is not ephemeral, from a user with no
\* usable login in a portal without a relay, makes no call of a client and
\* writes nothing to the Store
NoUsableLoginDropped ==
    [][(/\ last'.op = "handleMatrixEvent"
        /\ last'.evt.type \in RoutedTypes
        /\ Usable(last'.evt.sender, portals[last'.inst]) = {}
        /\ portals[last'.inst].Relay = "")
       => /\ last'.calls = {}
          /\ dbMessage' = dbMessage
          /\ dbReaction' = dbReaction]_vars

\* C27, amended: an M-side event that is not ephemeral, from a user with no
\* login at all in a portal without a relay, is dropped: FindPreferredLogin
\* fails, no call of a client is made, nothing is written to the Store, and
\* the pump goes on
NotLoggedInDropped ==
    [][(/\ last'.op = "handleMatrixEvent"
        /\ last'.evt.type \in RoutedTypes
        /\ logins[last'.evt.sender] = {}
        /\ portals[last'.inst].Relay = "")
       => /\ last'.pref.err \in {"ErrNotLoggedIn", "db"}
          /\ last'.calls = {}
          /\ dbMessage' = dbMessage
          /\ dbReaction' = dbReaction
          /\ running']_vars

\* A reaction of u2, who has no login, to a message that is in the Store
NotLoggedInWitness ==
    /\ last.op = "handleMatrixEvent"
    /\ last.evt.type = "reaction"
    /\ last.evt.sender = "u2"
    /\ portals[1].Relay = ""
    /\ last.pref.err = "ErrNotLoggedIn"
    /\ \E r \in dbMessage : r.MXID = last.evt.ref
    /\ running

\* The row a lookup of the R-side message id (and part, 0: the first)
\* resolves to in the Store, NilMessage if the lookup failed or there is no
\* such reference
Resolved(id, part, failed) ==
    IF id = 0 \/ failed THEN NilMessage
    ELSE IF part = 0 THEN GetFirstPartByID(dbMessage, id)
    ELSE GetFirstOrSpecificPartByID(dbMessage, id, part)

\* C28: every Message row inserted for an R-side message has RelatesToRowID
\* the RowID of the thread root when ThreadRoot resolves to a stored message,
\* else the RowID of the reply target when ReplyTo resolves, else 0
ThreadPrecedence ==
    [][last'.op = "handleRemoteMessage"
       => LET evt  == last'.evt
              rep  == Resolved(evt.ref, evt.refPart,
                        "GetFirstOrSpecificPartByID(ReplyTo)" \in last'.log)
              root == Resolved(evt.thread, 0,
                        "GetFirstOrSpecificPartByID(ThreadRoot)"
                          \in last'.log)
          IN \A r \in dbMessage' \ dbMessage :
               r.RelatesToRowID = (IF root # NilMessage THEN root.RowID
                                   ELSE IF rep # NilMessage THEN rep.RowID
                                   ELSE 0)]_vars

\* A message that replies to the second part of a stored message and is in
\* the thread of its first part has been inserted
ThreadPrecedenceWitness ==
    /\ last.op = "handleRemoteMessage"
    /\ last.evt.ref = 1 /\ last.evt.refPart = 2 /\ last.evt.thread = 1
    /\ \E t \in dbMessage, p \in dbMessage, r \in dbMessage :
         /\ t.ID = 1 /\ t.PartID = 1
         /\ p.ID = 1 /\ p.PartID = 2
         /\ r.ID = 2 /\ r.RelatesToRowID = t.RowID
         /\ t.RowID # p.RowID
    /\ \E k \in 1..Len(room) : room[k].rid = 2 /\ room[k].reply # 0

\* The fields of a PortalInfo that are given, and whether each is the
\* portal's current value with its flag set or without a room
ShortCircuits(portal, pinfo) ==
    LET info == portal.Info
        Cut(same, set) == same /\ (set \/ portal.MXID = 0)
    IN /\ pinfo.Name # <<>> => Cut(info.Name = pinfo.Name[1], info.NameSet)
       /\ pinfo.Topic # <<>>
          => Cut(info.Topic = pinfo.Topic[1], info.TopicSet)
       /\ pinfo.Avatar # <<>>
          => Cut(info.AvatarID = pinfo.Avatar[1].ID, info.AvatarSet)

\* C29: an UpdateInfo whose name, topic or avatar is the portal's current
\* value, with the Set flag true or MXID empty, leaves every field of the
\* portal as it was, sends no state event, publishes no bridge info and
\* writes nothing to the Store
InfoShortCircuit ==
    [][(/\ last'.op = "UpdateInfo"
        /\ ShortCircuits(portals[last'.inst], last'.arg.info))
       => /\ portals' = portals
          /\ dbPortal' = dbPortal
          /\ last'.api = <<>>
          /\ last'.calls = {}]_vars

\* The name that was set in the room has been given again, and nothing was
\* done
InfoShortCircuitWitness ==
    /\ last.op = "UpdateInfo"
    /\ last.arg.info.Name = <<"n1">>
    /\ portals[1].MXID # 0
    /\ portals[1].Info.Name = "n1"
    /\ portals[1].Info.NameSet
    /\ last.api = <<>>
    /\ "Portal.Update" \notin last.calls

\* The number of leave events for user u, sent by the bridge bot with the
\* reason of the removal, among the M-API calls of a step
Leaves(api, u) ==
    Cardinality({k \in 1..Len(api) :
                   /\ api[k].call = "SendState"
                   /\ api[k].by = Bot
                   /\ api[k].type = "m.room.member"
                   /\ api[k].key = u
                   /\ api[k].content
                        = <<"leave", "User is not in remote chat">>})

\* C30: a SyncParticipants that returns its plan on a portal with MXID set
\* sends, without a Relay, exactly one leave event to every member of the
\* room that is not in the plan and has not left or been banned, and no
\* leave event to anyone else; with a Relay it sends no leave event
MembershipRemoval ==
    [][(/\ last'.op = "SyncParticipants"
        /\ ~last'.err
        /\ portals[last'.inst].MXID # 0)
       => LET portal == portals[last'.inst]
              mem    == members[portal.MXID]
              plan   == Elems(last'.arg.ids)
          IN \A u \in MXIDs :
               Leaves(last'.api, u)
                 = (IF /\ portal.Relay = ""
                       /\ u \notin plan
                       /\ mem[u] \notin {"", "leave", "ban"}
                    THEN 1 ELSE 0)]_vars

\* The calls of a step without their outcome
Attempts(api) == [k \in 1..Len(api) |-> <<api[k].call, api[k].by, api[k].key>>]

\* What the SyncParticipants of the step does when the M-API refuses no
\* call for a member
Unfailing(portal, mem, step) ==
    SyncParticipants(portal, mem, step.arg.members,
                     [Quiet EXCEPT !.membersErr =
                        step.api # <<>> /\ ~step.api[1].ok])

\* The step made every call and returned the id list of a sync in which no
\* call for a member fails
SyncComplete(portal, mem, step) ==
    /\ ~step.err
    /\ step.arg.ids = Unfailing(portal, mem, step).ids
    /\ Attempts(step.api) = Attempts(Unfailing(portal, mem, step).api)

\* C31 as stated: no failure concerning one member, the ghost lookup
\* included, keeps SyncParticipants from processing the other members and
\* from returning the planned id list
MemberErrorsNeverAbort ==
    [][(/\ last'.op = "SyncParticipants"
        /\ last'.arg.failed # "GetUserLoginsInPortal"
        /\ portals[last'.inst].MXID # 0)
       => SyncComplete(portals[last'.inst],
                       members[portals[last'.inst].MXID], last')]_vars

\* C31: a refused EnsureJoined, InviteUser or leave is logged and keeps
\* SyncParticipants neither from making the calls for the other members nor
\* from returning the planned id list; a failed ghost lookup ends the sync
\* with an error, without an id list and without any call on the room
MemberErrorsLogged ==
    [][(/\ last'.op = "SyncParticipants"
        /\ portals[last'.inst].MXID # 0)
       => LET portal == portals[last'.inst]
              api    == last'.api
          IN /\ last'.arg.failed = ""
                => /\ SyncComplete(portal, members[portal.MXID], last')
                   /\ \A k \in 2..Len(api) :
                        ~api[k].ok
                        => (IF api[k].call = "SendState" THEN "leave"
                            ELSE api[k].call) \in last'.log
             /\ last'.arg.failed = "GetGhostByID"
                => last'.err /\ last'.arg.ids = <<>> /\ api = <<>>]_vars

\* The join of the first member was refused, and the second member was
\* joined and the unplanned member removed all the same
MemberErrorsLoggedWitness ==
    /\ last.op = "SyncParticipants"
    /\ last.arg.members = <<"g1", "g2">>
    /\ last.arg.ids = <<"u1", "@g1", "u1", "@g2">>
    /\ "EnsureJoined" \in last.log
    /\ \E j, k, l \in 1..Len(last.api) :
         /\ j < k /\ k < l
         /\ last.api[j].call = "EnsureJoined" /\ last.api[j].key = "@g1"
         /\ ~last.api[j].ok
         /\ last.api[k].call = "EnsureJoined" /\ last.api[k].key = "@g2"
         /\ last.api[k].ok
         /\ last.api[l].call = "SendState" /\ last.api[l].key = "u2"

\* The id list SyncParticipants plans for a member list: per member the
\* user that is to be invited, if any, before the intent that is to join
Planned(id, mlist) ==
    Flatten([k \in 1..Len(mlist) |->
               Expected(id, mlist)[k].extra
               \o <<Expected(id, mlist)[k].intent>>])

\* C32: while portal.MXID is empty, the UpdateInfo and the SyncParticipants
\* of CreateMatrixRoom make no call on the M-API, and a SyncParticipants
\* that returns no error returns the planned id list
NothingBeforeRoom ==
    [][(/\ last'.op = "CreateMatrixRoom"
        /\ "SyncParticipants" \in last'.calls)
       => /\ portals[last'.inst].MXID = 0
          /\ portals'[last'.inst].MXID = 0
          /\ last'.api = <<>>
          /\ members' = members
          /\ ~last'.err
             => initialMembers'[last'.inst]
                  = Planned(portals[last'.inst].ID, ChatInfo.Members)]_vars

\* CreateMatrixRoom has updated the name and planned the members of a
\* portal without a room, and is about to create the room
NothingBeforeRoomWitness ==
    /\ last.op = "CreateMatrixRoom"
    /\ "SyncParticipants" \in last.calls
    /\ ~last.err
    /\ portals[1].MXID = 0
    /\ portals[1].Info.Name = "n1"
    /\ ~portals[1].Info.NameSet
    /\ initialMembers[1] = <<"u1">>
    /\ last.api = <<>>

\* C33: when CreateMatrixRoom returns nil after CreateRoom, portal.MXID is
\* the id of the room that was created, NameSet, TopicSet and AvatarSet are
\* true, portalsByMXID maps that id to the portal and the Store row of the
\* portal is the portal with that MXID
CreationPostState ==
    [][(/\ last'.op = "CreateMatrixRoom"
        /\ last'.calls = {"Portal.Update"}
        /\ ~last'.err)
       => LET portal == portals'[last'.inst]
          IN /\ portal.MXID # 0
             /\ portal.MXID = nextRoom' - 1
             /\ portal.Info.NameSet
             /\ portal.Info.TopicSet
             /\ portal.Info.AvatarSet
             /\ portalsByMXID'[portal.MXID] = last'.inst
             /\ dbPortal'[portal.ID] = Row(portal)]_vars

\* A caller outside the pump has created room 2 for the portal and has
\* returned nil
CreationPostStateWitness ==
    /\ last.op = "CreateMatrixRoom"
    /\ last.calls = {"Portal.Update"}
    /\ ~last.err
    /\ last.arg = "ext"
    /\ portals[1].MXID = 2
    /\ dbPortal["pa"].MXID = 2
    /\ portalsByMXID[2] = 1

\* The mutex goroutine t waits for ("" : it waits for none)
WaitsFor(t) ==
    IF goroutine[t] # <<>> /\ Head(goroutine[t]).op = "Lock"
                          /\ Holder(Head(goroutine[t]).what) # ""
    THEN Head(goroutine[t]).what ELSE ""

\* Goroutines that wait for mutexes held among themselves
Deadlocked ==
    \E S \in SUBSET Threads \ {{}} :
       \A t \in S : WaitsFor(t) # "" /\ Holder(WaitsFor(t)) \in S

\* C34: a goroutine that holds cacheLock is not about to enqueue, and is
\* about to make a call that may suspend it only in a lookup of the
\* registry; it does not request roomCreateLock or currentlyTypingLock; and
\* no goroutines wait for mutexes held among themselves
LockDiscipline ==
    /\ \A t \in Threads :
         (cacheLock = t /\ goroutine[t] # <<>>)
         => LET do == Head(goroutine[t])
            IN /\ do.op # "enqueue"
               /\ do.op = "call" => do.code = "registry"
               /\ do.op # "Lock"
    /\ ~Deadlocked

\* The pump holds cacheLock in FindPreferredLogin while the connector's
\* goroutine, holding roomCreateLock after CreateRoom, waits for cacheLock
LockDisciplineWitness ==
    /\ cacheLock = "loop"
    /\ roomCreateLock[1] = "ext"
    /\ WaitsFor("ext") = "cacheLock"
    /\ portals[1].MXID = 2

\* C35: every Message row the Portal inserts carries a sender_mxid: the
\* sender of the M-event for a message from the M-side, and the MXID that
\* sent the row's event to the room for a part of an R-side message
SenderMXIDStored ==
    [][\A r \in {n \in dbMessage' : \A o \in dbMessage : o.RowID # n.RowID} :
         /\ r.sender_mxid # ""
         /\ last'.op = "handleMatrixEvent"
            => r.sender_mxid = last'.evt.sender
         /\ last'.op = "handleRemoteMessage"
            => \E k \in 1..Len(room') : /\ room'[k].mxid = r.MXID
                                        /\ room'[k].rid = r.ID
                                        /\ room'[k].sender = r.sender_mxid]_vars

\* The Store holds a row of a message u1 sent and a row of a part the
\* ghost of g1 sent
SenderMXIDStoredWitness ==
    /\ \E r \in dbMessage : r.sender_mxid = "u1"
    /\ \E r \in dbMessage : r.sender_mxid = "@g1"

\* C36: every Portal in portalsByID has a running pump, so that a lookup
\* never returns a cached Portal whose events are never handled
RegisteredHasPump ==
    \A id \in PortalIDs :
       portalsByID[id] # 0 => pc[portalsByID[id]] # "none"

\* The lookup of the R-side message id for that relation of the step's
\* event returned no row and no error
Unknown(id, part, step, relation) ==
    /\ id # 0
    /\ relation \notin step.log
    /\ Resolved(id, part, FALSE) = NilMessage

\* C37: an R-side message that is converted and whose ReplyTo or ThreadRoot
\* is not in the Store, the lookup returning no error, is bridged: the
\* handler does not panic and SendMessage is called for each of its parts
UnknownReferenceBridged ==
    [][(/\ last'.op = "handleRemoteMessage"
        /\ ~last'.found
        /\ last'.log \cap {"GetGhostByID", "ConvertMessage"} = {}
        /\ \/ Unknown(last'.evt.ref, last'.evt.refPart, last',
                       "GetFirstOrSpecificPartByID(ReplyTo)")
           \/ Unknown(last'.evt.thread, 0, last',
                       "GetFirstOrSpecificPartByID(ThreadRoot)"))
       => /\ running'
          /\ last'.evt.n \notin panics'
          /\ last'.sends = last'.evt.parts]_vars

\* C38: SyncParticipants on a room in which the bridge bot is joined sends
\* no leave event whose state key is the bridge bot's MXID
BotNeverRemoved ==
    [][(/\ last'.op = "SyncParticipants"
        /\ portals[last'.inst].MXID # 0
        /\ members[portals[last'.inst].MXID][Bot] = "join")
       => \A k \in 1..Len(last'.api) :
            ~(/\ last'.api[k].call = "SendState"
              /\ last'.api[k].type = "m.room.member"
              /\ last'.api[k].key = Bot
              /\ last'.api[k].content[1] = "leave")]_vars

\* The events the step sent to the room, in order
NewEvents == SubSeq(room', Len(room) + 1, Len(room'))

\* The rows of new RowIDs the step left in the Store
NewRows == {n \in dbMessage' : \A o \in dbMessage : o.RowID # n.RowID}

\* A step of handleRemoteMessage that reached the loop over the parts
SendsParts ==
    /\ last'.op = "handleRemoteMessage"
    /\ running'
    /\ ~last'.found
    /\ last'.log \cap {"GetGhostByID", "ConvertMessage"} = {}

\* Every new row is the row of a part of the message that was sent, with
\* the event id the M-API returned
RowsOnlyOfSentParts ==
    \A r \in NewRows :
       /\ r.ID = last'.evt.id
       /\ \E j \in 1..Len(NewEvents) : /\ NewEvents[j].rid = r.ID
                                        /\ NewEvents[j].part = r.PartID
                                        /\ NewEvents[j].mxid = r.MXID

\* Every part that was sent has its row
SentPartsHaveRows ==
    \A j \in 1..Len(NewEvents) :
       \E r \in NewRows : /\ r.ID = NewEvents[j].rid
                          /\ r.PartID = NewEvents[j].part
                          /\ r.MXID = NewEvents[j].mxid

\* SendMessage was called for every part, and within a thread a part
\* follows the part sent before it, the first one the thread root; a reply
\* target takes the place of the part it follows
PartsChained ==
    LET evt  == last'.evt
        root == Resolved(evt.thread, 0,
                  "GetFirstOrSpecificPartByID(ThreadRoot)" \in last'.log)
        rep  == Resolved(evt.ref, evt.refPart,
                  "GetFirstOrSpecificPartByID(ReplyTo)" \in last'.log)
    IN /\ last'.sends = evt.parts
       /\ \A j \in 1..Len(NewEvents) :
            /\ NewEvents[j].thread = root.MXID
            /\ NewEvents[j].reply
                 = (IF rep # NilMessage THEN rep.MXID
                    ELSE IF root = NilMessage THEN 0
                    ELSE IF j = 1 THEN root.MXID
                    ELSE NewEvents[j - 1].mxid)

\* C39 as stated: handleRemoteMessage leaves a row for a part iff the
\* SendMessage of the part succeeded
PartAtomicity ==
    [][SendsParts
       => RowsOnlyOfSentParts /\ SentPartsHaveRows /\ PartsChained]_vars

\* C39: handleRemoteMessage calls SendMessage for every part, whatever the
\* outcome for the parts before; it inserts a row only for a part that was
\* sent, with the returned event id, and every part that was sent has its
\* row unless an Insert failed and was logged; within a thread each part
\* follows the last part that was sent
PartAtomicityUnlessInsertFails ==
    [][SendsParts
       => /\ RowsOnlyOfSentParts
          /\ "Message.Insert" \notin last'.log => SentPartsHaveRows
          /\ NewEvents # <<>> => "Message.Insert" \in last'.calls
          /\ PartsChained]_vars

\* Both parts of a message in a thread were sent and have their rows, and
\* the second follows the first
PartAtomicityWitness ==
    /\ last.op = "handleRemoteMessage"
    /\ last.evt.parts = 2 /\ last.evt.thread = 1
    /\ \E t \in dbMessage, a \in dbMessage, b \in dbMessage :
         /\ t.ID = 1 /\ t.PartID = 1
         /\ a.ID = 2 /\ a.PartID = 1
         /\ b.ID = 2 /\ b.PartID = 2
         /\ \E j \in 2..Len(room) :
              /\ room[j - 1].mxid = a.MXID /\ room[j - 1].reply = t.MXID
              /\ room[j].mxid = b.MXID /\ room[j].reply = a.MXID
              /\ room[j].thread = t.MXID

\* C40: an UpdateInfo that gives the avatar whose Reupload, the latest of
\* the portal, failed calls Reupload again, whether or not the room was
\* created in between
FailedReuploadRetried ==
    [][(/\ last'.op = "UpdateInfo"
        /\ last'.arg.info.Avatar # <<>>
        /\ ~last'.arg.info.Avatar[1].Remove
        /\ last'.arg.info.Avatar[1].ID = reuploadFailed[last'.inst])
       => "Reupload" \in last'.calls]_vars

====
